---- MODULE Spec2Model ----
(***************************************************************************)
(* Model of the mock LSP server's dispatch and document-synchronization    *)
(* engine (package lsp: MockLSPServer, ErrorHandler, LSPError).            *)
(*                                                                         *)
(* Spec     : messages are handled one at a time, one action per handler.  *)
(* SpecSession : the same read loop, with the lifecycle requests handled   *)
(*            so far (initialize, shutdown) recorded.                      *)
(* SpecConc : NumThreads handler invocations run at once on one server,    *)
(*            interleaved at every access to the documents map.            *)
(* SpecErrors : the operations of the error layer (constructors,           *)
(*            WithContext, WrapError, ToJSONRPCError, HandleError,         *)
(*            LSPErrorCode.String) applied to inputs from bounded sets.    *)
(* SpecConfig : mergeConfigs (package config) applied to a base and an     *)
(*            override configuration.                                      *)
(* SpecLogging : the logging manager (package logging): Initialize,        *)
(*            SetLogLevel and the levelled log calls.                      *)
(***************************************************************************)
EXTENDS Integers, Sequences, FiniteSets, TLC

\* ------------------------------------------------------------------ bounds
MaxVersion == 1
MaxChanges == 2
NumThreads == 2
MaxAnnotations == 2
MaxLogLines == 2

\* ------------------------------------------------------------ data values
Uris == {"file:///a.go", "file:///b.go"}
Texts == {"package a", "package b"}
Versions == 0..MaxVersion
LanguageIds == {"go", "plaintext"}
NoId == "noid"
RequestIds == {"id1"}

SupportedMethods ==
    {"initialize", "initialized", "textDocument/didOpen", "textDocument/didChange",
     "textDocument/didSave", "textDocument/didClose", "textDocument/completion",
     "textDocument/hover", "textDocument/definition", "textDocument/references",
     "textDocument/documentSymbol", "shutdown", "exit"}

\* Method strings the switch of Handle does not match (one differs from a
\* supported name by case only).
UnknownMethods == {"Initialize", "workspace/unsupported"}

\* ------------------------------------------------------------- error codes
\* LSPErrorCode: the 15 defined codes.
ErrorCodeParseError == -32700
ErrorCodeInvalidRequest == -32600
ErrorCodeMethodNotFound == -32601
ErrorCodeInvalidParams == -32602
ErrorCodeInternalError == -32603
ErrorCodeServerNotInitialized == -32002
ErrorCodeUnknownErrorCode == -32001
ErrorCodeDocumentNotFound == -32100
ErrorCodeInvalidDocument == -32101
ErrorCodeDocumentSyncFailed == -32102
ErrorCodeCompletionFailed == -32103
ErrorCodeHoverFailed == -32104
ErrorCodeDefinitionFailed == -32105
ErrorCodeReferencesFailed == -32106
ErrorCodeDocumentSymbolFailed == -32107

CodeString_SyncFailedAsInvalidDocument(code) ==
    CASE code = ErrorCodeParseError -> "ParseError"
      [] code = ErrorCodeInvalidRequest -> "InvalidRequest"
      [] code = ErrorCodeMethodNotFound -> "MethodNotFound"
      [] code = ErrorCodeInvalidParams -> "InvalidParams"
      [] code = ErrorCodeInternalError -> "InternalError"
      [] code = ErrorCodeServerNotInitialized -> "ServerNotInitialized"
      [] code = ErrorCodeUnknownErrorCode -> "UnknownErrorCode"
      [] code = ErrorCodeDocumentNotFound -> "DocumentNotFound"
      [] code = ErrorCodeInvalidDocument -> "InvalidDocument"
      [] code = ErrorCodeDocumentSyncFailed -> "InvalidDocument"
      [] code = ErrorCodeCompletionFailed -> "CompletionFailed"
      [] code = ErrorCodeHoverFailed -> "HoverFailed"
      [] code = ErrorCodeDefinitionFailed -> "DefinitionFailed"
      [] code = ErrorCodeReferencesFailed -> "ReferencesFailed"
      [] code = ErrorCodeDocumentSymbolFailed -> "DocumentSymbolFailed"
      [] OTHER -> "UnknownError"

\* LSPErrorCode.String: the switch over the code, default "UnknownError".
CodeString(code) ==
    CASE code = ErrorCodeParseError -> "ParseError"
      [] code = ErrorCodeInvalidRequest -> "InvalidRequest"
      [] code = ErrorCodeMethodNotFound -> "MethodNotFound"
      [] code = ErrorCodeInvalidParams -> "InvalidParams"
      [] code = ErrorCodeInternalError -> "InternalError"
      [] code = ErrorCodeServerNotInitialized -> "ServerNotInitialized"
      [] code = ErrorCodeUnknownErrorCode -> "UnknownErrorCode"
      [] code = ErrorCodeDocumentNotFound -> "DocumentNotFound"
      [] code = ErrorCodeInvalidDocument -> "InvalidDocument"
      [] code = ErrorCodeDocumentSyncFailed -> "DocumentSyncFailed"
      [] code = ErrorCodeCompletionFailed -> "CompletionFailed"
      [] code = ErrorCodeHoverFailed -> "HoverFailed"
      [] code = ErrorCodeDefinitionFailed -> "DefinitionFailed"
      [] code = ErrorCodeReferencesFailed -> "ReferencesFailed"
      [] code = ErrorCodeDocumentSymbolFailed -> "DocumentSymbolFailed"
      [] OTHER -> "UnknownError"

\* -------------------------------------------------------------- LSPError
\* An error value: kind "nil" (no error), "generic" (a json or transport
\* error) or "lsp" (*LSPError).  context is a function from keys to values;
\* ctxNil says that the Context map is nil (a struct built without a
\* constructor).  data is the Data field: its dynamic type and its value.
EmptyContext == [k \in {} |-> ""]

NoData == [type |-> "nil", value |-> ""]

NilError ==
    [kind |-> "nil", code |-> 0, message |-> <<"", "">>, cause |-> "none",
     context |-> EmptyContext, ctxNil |-> TRUE, data |-> NoData]

GenericError(what) ==
    [kind |-> "generic", code |-> 0, message |-> <<what, "">>, cause |-> "none",
     context |-> EmptyContext, ctxNil |-> TRUE, data |-> NoData]

NewLSPErrorWithCause(code, message, cause) ==
    [kind |-> "lsp", code |-> code, message |-> message, cause |-> cause,
     context |-> EmptyContext, ctxNil |-> FALSE, data |-> NoData]

NewLSPError(code, message) == NewLSPErrorWithCause(code, message, "none")

NewLSPErrorWithData(code, message, data) ==
    [NewLSPError(code, message) EXCEPT !.data = data]

\* &LSPError{Code: code, Message: message}: the Context map is nil.
LSPErrorLiteral(code, message) ==
    [NewLSPError(code, message) EXCEPT !.ctxNil = TRUE]

\* Unwrap returns the cause (identified by its text; "none" is nil).
Unwrap(e) == e.cause

WithContext_KeepsFirst(e, key, value) ==
    [e EXCEPT !.ctxNil = FALSE,
              !.context = [k \in DOMAIN e.context \cup {key} |->
                              IF k \in DOMAIN e.context THEN e.context[k] ELSE value]]

\* The map is made when it is nil, the key is set, and e itself is returned.
WithContext(e, key, value) ==
    [e EXCEPT !.ctxNil = FALSE,
              !.context = [k \in DOMAIN (IF e.ctxNil THEN EmptyContext ELSE e.context)
                                    \cup {key} |->
                              IF k = key THEN value ELSE e.context[k]]]

NewInvalidParamsError(message, cause) ==
    NewLSPErrorWithCause(ErrorCodeInvalidParams, message, cause)

\* A message is a format string and its argument (fmt.Sprintf is modelled by
\* the pair, so that two messages are equal iff format and argument are).
Msg(format) == <<format, "">>

MethodNotFoundMessage(method) == <<"method not found: %s", method>>

NewMethodNotFoundError_InvalidRequest(method) ==
    WithContext(NewLSPError(-32600, MethodNotFoundMessage(method)), "method", method)

NewMethodNotFoundError(method) ==
    WithContext(NewLSPError(ErrorCodeMethodNotFound, MethodNotFoundMessage(method)),
                "method", method)

RECURSIVE WrapContext(_, _)
WrapContext(e, context) ==
    IF DOMAIN context = {} THEN e
    ELSE LET k == CHOOSE x \in DOMAIN context : TRUE
         IN WrapContext(WithContext(e, k, context[k]),
                        [x \in DOMAIN context \ {k} |-> context[x]])

\* The cause of a wrapping error: the wrapped error (by its text), nil if none.
CauseOf(err) == IF err.kind = "nil" THEN "none" ELSE err.message[1]

WrapError_WithoutContext(err, code, message, context) ==
    NewLSPErrorWithCause(code, message, CauseOf(err))

WrapError(err, code, message, context) ==
    WrapContext(NewLSPErrorWithCause(code, message, CauseOf(err)), context)

\* The wire error: code, message, and the data only when its dynamic type is
\* *json.RawMessage (the type assertion); context and cause are not copied.
ToJSONRPCError(e) ==
    [code |-> e.code, message |-> e.message,
     data |-> IF e.data.type = "*json.RawMessage" THEN e.data ELSE NoData]

\* ---------------------------------------------------------------- events
\* What one handler invocation does, in program order: sends to the client
\* (reply, error, notify; ok = the transport accepted the write), log
\* entries, and mutations of the documents map.
BaseEvent ==
    [kind |-> "", id |-> NoId, code |-> 0, message |-> <<"", "">>, method |-> "",
     uri |-> "", payload |-> [type |-> "none"], ok |-> TRUE, level |-> "",
     via |-> "", fields |-> EmptyContext, detail |-> EmptyContext]

ReplyEvent(id, result, ok) ==
    [BaseEvent EXCEPT !.kind = "reply", !.id = id, !.payload = result, !.ok = ok]

ReplyWithErrorEvent(id, rpcErr, ok) ==
    [BaseEvent EXCEPT !.kind = "error", !.id = id, !.code = rpcErr.code,
                      !.message = rpcErr.message, !.ok = ok]

NotifyEvent(method, params, ok) ==
    [BaseEvent EXCEPT !.kind = "notify", !.method = method, !.uri = params.uri,
                      !.payload = params, !.ok = ok]

LogEvent(via, level, message, fields) ==
    [BaseEvent EXCEPT !.kind = "log", !.via = via, !.level = level,
                      !.message = message, !.fields = fields]

StoreEvent(op, uri) == [BaseEvent EXCEPT !.kind = "store", !.method = op, !.uri = uri]

\* --------------------------------------------------------------- logging
\* The context main gives the structured logger before it builds the server.
LoggerContext == [k \in {"component"} |-> "lsp-server"]

\* StructuredLogger.WithContext copies the context and sets one key.
LoggerWithContext(ctx, key, value) ==
    [k \in DOMAIN ctx \cup {key} |-> IF k = key THEN value ELSE ctx[k]]

RECURSIVE LoggerWithAll(_, _)
LoggerWithAll(ctx, more) ==
    IF DOMAIN more = {} THEN ctx
    ELSE LET k == CHOOSE x \in DOMAIN more : TRUE
         IN LoggerWithAll(LoggerWithContext(ctx, k, more[k]),
                          [x \in DOMAIN more \ {k} |-> more[x]])

\* s.logger.Printf / s.logger.Println: the plain logger, no level.
Printf(message) == <<LogEvent("plain", "", message, EmptyContext)>>

logInfo(s, message) ==
    IF s.structured
    THEN <<LogEvent("structured", "Info", message, LoggerContext)>>
    ELSE <<LogEvent("plain", "Info", message, EmptyContext)>>

logError(s, message, fields) ==
    IF s.structured
    THEN <<LogEvent("structured", "Error", message, LoggerContext)>>
    ELSE <<LogEvent("plain", "Error", message, fields)>>

HandleError(s, err, operation) ==
    IF err.kind = "nil" THEN <<>>
    ELSE IF err.kind = "lsp"
    THEN IF s.structured
         THEN <<LogEvent("structured", "Error",
                         <<"LSP operation failed: %s", err.message[1]>>,
                         LoggerWithAll(
                            LoggerWithContext(
                               LoggerWithContext(LoggerContext, "operation", operation),
                               "error_code", CodeString(err.code)),
                            err.context))>>
         ELSE LET entry ==
                      logError(s, <<"LSP operation failed [%s]: %v", operation>>,
                               [k \in {"operation", "error_code"} |->
                                   IF k = "operation" THEN operation
                                   ELSE CodeString(err.code)])[1]
              IN \* %v is err.Error(): code name, message and formatContext()
                 <<[entry EXCEPT !.detail = err.context]>>
    ELSE IF s.structured
         THEN <<LogEvent("structured", "Error", <<"Operation failed: %v", err.message[1]>>,
                         LoggerWithContext(LoggerContext, "operation", operation))>>
         ELSE logError(s, <<"Operation failed [%s]: %v", operation>>,
                       [k \in {"operation"} |-> operation])

\* ---------------------------------------------------------------- params
\* req.Params is a *json.RawMessage: nil when the message carries no params,
\* else raw JSON that json.Unmarshal either rejects ("bad": invalid JSON or
\* a value of the wrong type) or decodes into the handler's params struct.
\* A content change is the decoded value of the Or2 union: "whole"
\* (TextDocumentContentChangeWholeDocument), "partial"
\* (TextDocumentContentChangePartial) or "other" (anything else, the default
\* branch of the type switch).
ChangeKinds == {"whole", "partial", "other"}
ContentChange == [kind : {"whole"}, text : Texts] \cup [kind : {"partial"}, text : {"package a"}]
OtherChange == [kind |-> "other", text |-> "package a"]

RECURSIVE SeqsUpTo(_, _)
SeqsUpTo(S, n) ==
    IF n = 0 THEN {<<>>}
    ELSE LET shorter == SeqsUpTo(S, n - 1)
         IN shorter \cup {Append(q, x) : q \in {r \in shorter : Len(r) = n - 1}, x \in S}

\* The lists of whole and partial changes of up to MaxChanges elements, and
\* one list that reaches the default branch.
ChangeLists == SeqsUpTo(ContentChange, MaxChanges) \cup {<<OtherChange>>}

NilParams ==
    [tag |-> "nil", uri |-> "", text |-> "", version |-> 0, languageId |-> "",
     changes |-> <<>>, line |-> 0, character |-> [hi |-> 0, lo |-> 0]]

BadParams == [NilParams EXCEPT !.tag = "bad"]

UriParams(uri) == [NilParams EXCEPT !.tag = "ok", !.uri = uri]

PositionParams(uri, line, character) ==
    [NilParams EXCEPT !.tag = "ok", !.uri = uri, !.line = line, !.character = character]

DidOpenParams(uri, text, version, languageId) ==
    [NilParams EXCEPT !.tag = "ok", !.uri = uri, !.text = text, !.version = version,
                      !.languageId = languageId]

DidChangeParams(uri, version, changes) ==
    [NilParams EXCEPT !.tag = "ok", !.uri = uri, !.version = version, !.changes = changes]

\* json.Unmarshal(*req.Params, &params): dereferencing a nil Params panics.
Unmarshal(params) ==
    [panic |-> params.tag = "nil",
     err |-> IF params.tag = "bad" THEN GenericError("json: cannot unmarshal") ELSE NilError,
     value |-> params]

TransportError == GenericError("transport write failed")

\* ------------------------------------------------------- document store
\* documents: a function from the URIs in the map to the stored item.
TextDocumentItem(p) ==
    [uri |-> p.uri, text |-> p.text, version |-> p.version, languageId |-> p.languageId]

MapAssign_KeepExisting(documents, uri, item) ==
    [u \in DOMAIN documents \cup {uri} |-> IF u \in DOMAIN documents THEN documents[u] ELSE item]

\* s.documents[uri] = &params.TextDocument
MapAssign(documents, uri, item) ==
    [u \in DOMAIN documents \cup {uri} |-> IF u = uri THEN item ELSE documents[u]]

MapDelete_Keep(documents, uri) == documents

\* delete(s.documents, uri)
MapDelete_Clears(documents, uri) ==
    IF uri \in DOMAIN documents THEN <<>> ELSE documents

MapDelete(documents, uri) == [u \in DOMAIN documents \ {uri} |-> documents[u]]

SetVersion_Monotonic(doc, version) ==
    IF version > doc.version THEN [doc EXCEPT !.version = version] ELSE doc

\* doc.Version = params.TextDocument.Version
SetVersion(doc, version) == [doc EXCEPT !.version = version]

ApplyChange_StoresNewItem(doc, change) ==
    IF change.kind = "whole"
    THEN [uri |-> "", text |-> change.text, version |-> doc.version,
          languageId |-> doc.languageId]
    ELSE doc

ApplyChange_RangeReplaces(doc, change) ==
    IF change.kind \in {"whole", "partial"} THEN [doc EXCEPT !.text = change.text] ELSE doc

\* One iteration of the loop over params.ContentChanges.
ApplyChange(doc, change) ==
    IF change.kind = "whole" THEN [doc EXCEPT !.text = change.text] ELSE doc

ApplyChangeEvents(uri, change) ==
    CASE change.kind = "partial" ->
            Printf(<<"Partial document update for %s at range %v", uri>>)
            \o Printf(<<"Replacing text in range with: %q", change.text>>)
      [] change.kind = "whole" ->
            <<StoreEvent("text", uri)>> \o Printf(<<"Full document update for %s", uri>>)
      [] OTHER -> Printf(<<"Unknown content change type: %T", change.kind>>)

RECURSIVE ApplyChanges(_, _)
ApplyChanges(doc, changes) ==
    IF changes = <<>> THEN doc
    ELSE ApplyChanges(ApplyChange(doc, Head(changes)), Tail(changes))

ApplyChangesEvents_FirstOnly(uri, changes) ==
    IF changes = <<>> THEN <<>> ELSE ApplyChangeEvents(uri, Head(changes))

RECURSIVE ApplyChangesEvents(_, _)
ApplyChangesEvents(uri, changes) ==
    IF changes = <<>> THEN <<>>
    ELSE ApplyChangeEvents(uri, Head(changes)) \o ApplyChangesEvents(uri, Tail(changes))

\* ------------------------------------------------------------ diagnostics
\* protocol.DiagnosticSeverityWarning / DiagnosticSeverityInformation, by name.
DiagnosticSeverityWarning == "Warning"
DiagnosticSeverityInformation == "Information"

Range(sl, sc, el, ec) ==
    [start |-> [line |-> sl, character |-> sc], end |-> [line |-> el, character |-> ec]]

MockDiagnostics ==
    << [range |-> Range(1, 0, 1, 10), severity |-> DiagnosticSeverityWarning,
        message |-> "This is a mock warning", source |-> "mock-lsp"],
       [range |-> Range(5, 15, 5, 25), severity |-> DiagnosticSeverityInformation,
        message |-> "This is mock info", source |-> "mock-lsp"] >>

PublishDiagnosticsParams(uri) ==
    [type |-> "publishDiagnostics", uri |-> uri, diagnostics |-> MockDiagnostics]

sendMockDiagnostics_Retries(uri, sendOk) ==
    IF sendOk
    THEN <<NotifyEvent("textDocument/publishDiagnostics", PublishDiagnosticsParams(uri), TRUE)>>
    ELSE <<NotifyEvent("textDocument/publishDiagnostics", PublishDiagnosticsParams(uri), FALSE)>>
         \o Printf(<<"Failed to send diagnostics notification: %v", "transport">>)
         \o <<NotifyEvent("textDocument/publishDiagnostics", PublishDiagnosticsParams(uri),
                          TRUE)>>

sendMockDiagnostics_Accumulates(uri, sendOk) ==
    <<NotifyEvent("textDocument/publishDiagnostics",
                  [PublishDiagnosticsParams(uri) EXCEPT
                      !.diagnostics = MockDiagnostics \o MockDiagnostics],
                  sendOk)>>

sendMockDiagnostics(uri, sendOk) ==
    <<NotifyEvent("textDocument/publishDiagnostics", PublishDiagnosticsParams(uri), sendOk)>>
    \o (IF sendOk THEN <<>>
        ELSE Printf(<<"Failed to send diagnostics notification: %v", "transport">>))

\* History of the session (SpecSession only): which of "initialize" (decoded)
\* and "shutdown" Handle has handled so far.  The server keeps no such state.
VARIABLE seen

\* --------------------------------------------------------------- handlers
\* A handler is an operator of the server s = [documents, structured], the
\* request req = [method, notif, id, params] and the outcome sendOk of its
\* one write to the transport.  It yields the documents map it leaves, the
\* events it performed in program order, and the state of the process.
Outcome(documents, events) ==
    [documents |-> documents, events |-> events, status |-> "running"]

\* A nil dereference: the goroutine panics and the process dies.
Panic(s) == [documents |-> s.documents, events |-> <<>>, status |-> "panicked"]

ReplyContext(method, id) ==
    [k \in {"method", "request_id"} |-> IF k = "method" THEN method ELSE id]

InitializeResult ==
    [type |-> "InitializeResult",
     triggerCharacters |-> <<".", ":">>,
     providers |-> {"hover", "definition", "references", "documentSymbol"},
     serverInfo |-> [name |-> "Mock LSP Server", version |-> "1.0.0"]]

handleInitialize(s, req, sendOk) ==
    LET dec == Unmarshal(req.params)
        lspErr == WithContext(
                     NewInvalidParamsError(Msg("failed to parse initialize params"),
                                           dec.err.message[1]),
                     "method", "initialize")
    IN IF dec.panic THEN Panic(s)
       ELSE IF dec.err.kind # "nil"
       THEN Outcome(s.documents,
                <<ReplyWithErrorEvent(req.id, ToJSONRPCError(lspErr), sendOk)>>
                \o (IF sendOk THEN <<>>
                    ELSE HandleError(s, TransportError, "initialize_send_error"))
                \o HandleError(s, lspErr, "initialize_parse_params"))
       ELSE Outcome(s.documents,
                logInfo(s, <<"Initialize request from client with root URI: %+v",
                             dec.value.uri>>)
                \o <<ReplyEvent(req.id, InitializeResult, sendOk)>>
                \o (IF sendOk THEN <<>>
                    ELSE HandleError(s,
                            WrapError(TransportError, ErrorCodeInternalError,
                                      Msg("Failed to send initialize response"),
                                      ReplyContext("initialize", req.id)),
                            "initialize_send_response")))

handleInitialized(s, req, sendOk) ==
    Outcome(s.documents, logInfo(s, Msg("Client initialized")))

handleTextDocumentDidOpen(s, req, sendOk) ==
    LET dec == Unmarshal(req.params)
        lspErr == WithContext(
                     NewInvalidParamsError(
                        Msg("failed to parse textDocument/didOpen params"),
                        dec.err.message[1]),
                     "method", "textDocument/didOpen")
        uri == dec.value.uri
    IN IF dec.panic THEN Panic(s)
       ELSE IF dec.err.kind # "nil"
       THEN Outcome(s.documents, HandleError(s, lspErr, "didOpen_parse_params"))
       ELSE Outcome(MapAssign(s.documents, uri, TextDocumentItem(dec.value)),
                <<StoreEvent("assign", uri)>>
                \o Printf(<<"Opened document: %s", uri>>)
                \o sendMockDiagnostics(uri, sendOk))

DidChangeAbsent_Publishes(s, uri, sendOk) ==
    Outcome(s.documents, sendMockDiagnostics(uri, sendOk))

\* The if without an else: a didChange for a URI that is not in the map.
DidChangeAbsent(s, uri, sendOk) == Outcome(s.documents, <<>>)

handleTextDocumentDidChange(s, req, sendOk) ==
    LET dec == Unmarshal(req.params)
        uri == dec.value.uri
    IN IF dec.panic THEN Panic(s)
       ELSE IF dec.err.kind # "nil"
       THEN Outcome(s.documents,
                Printf(<<"Failed to parse didChange params: %v", dec.err.message[1]>>))
       ELSE IF uri \in DOMAIN s.documents
       THEN LET doc == SetVersion(s.documents[uri], dec.value.version)
            IN Outcome([s.documents EXCEPT ![uri] = ApplyChanges(doc, dec.value.changes)],
                   <<StoreEvent("version", uri)>>
                   \o ApplyChangesEvents(uri, dec.value.changes)
                   \o Printf(<<"Document changed: %s (version %d)", uri>>)
                   \o sendMockDiagnostics(uri, sendOk))
       ELSE DidChangeAbsent(s, uri, sendOk)

handleTextDocumentDidSave_Closes(s, req, sendOk) ==
    LET dec == Unmarshal(req.params)
    IN IF dec.panic THEN Panic(s)
       ELSE IF dec.err.kind # "nil"
       THEN Outcome(s.documents,
                Printf(<<"Failed to parse didSave params: %v", dec.err.message[1]>>))
       ELSE Outcome(MapDelete(s.documents, dec.value.uri),
                Printf(<<"Document saved: %s", dec.value.uri>>))

handleTextDocumentDidSave_RepliesOnDecodeFailure(s, req, sendOk) ==
    LET dec == Unmarshal(req.params)
    IN IF dec.panic THEN Panic(s)
       ELSE IF dec.err.kind # "nil"
       THEN Outcome(s.documents,
                <<ReplyWithErrorEvent(req.id,
                     [code |-> -32602, message |-> Msg("failed to parse didSave params")],
                     sendOk)>>)
       ELSE Outcome(s.documents, Printf(<<"Document saved: %s", dec.value.uri>>))

handleTextDocumentDidSave(s, req, sendOk) ==
    LET dec == Unmarshal(req.params)
    IN IF dec.panic THEN Panic(s)
       ELSE IF dec.err.kind # "nil"
       THEN Outcome(s.documents,
                Printf(<<"Failed to parse didSave params: %v", dec.err.message[1]>>))
       ELSE Outcome(s.documents, Printf(<<"Document saved: %s", dec.value.uri>>))

handleTextDocumentDidClose(s, req, sendOk) ==
    LET dec == Unmarshal(req.params)
    IN IF dec.panic THEN Panic(s)
       ELSE IF dec.err.kind # "nil"
       THEN Outcome(s.documents,
                Printf(<<"Failed to parse didClose params: %v", dec.err.message[1]>>))
       ELSE Outcome(MapDelete(s.documents, dec.value.uri),
                <<StoreEvent("delete", dec.value.uri)>>
                \o Printf(<<"Closed document: %s", dec.value.uri>>))

\* The request handlers below reply with a literal jsonrpc2.Error on a decode
\* failure and log a failed send with s.logger.Printf.
CodeInvalidParams == -32602

RequestDecodeFailure_ParseError(s, req, sendOk, message, logFormat) ==
    Outcome(s.documents,
        <<ReplyWithErrorEvent(req.id, [code |-> -32700, message |-> Msg(message)], sendOk)>>
        \o (IF sendOk THEN <<>> ELSE Printf(<<logFormat, "transport">>)))

RequestDecodeFailure(s, req, sendOk, message, logFormat) ==
    Outcome(s.documents,
        <<ReplyWithErrorEvent(req.id, [code |-> CodeInvalidParams, message |-> Msg(message)],
                              sendOk)>>
        \o (IF sendOk THEN <<>> ELSE Printf(<<logFormat, "transport">>)))

RequestReply(s, req, sendOk, result, logFormat) ==
    Outcome(s.documents,
        <<ReplyEvent(req.id, result, sendOk)>>
        \o (IF sendOk THEN <<>> ELSE Printf(<<logFormat, "transport">>)))

CompletionList_SortedByLabel ==
    [type |-> "CompletionList", isIncomplete |-> FALSE,
     items |-> << [label |-> "mockClass", kind |-> "Class",
                   detail |-> "Mock class completion",
                   documentation |-> "", insertText |-> "MockClass"],
                  [label |-> "mockFunction", kind |-> "Function",
                   detail |-> "Mock function completion",
                   documentation |-> "This is a mock function completion",
                   insertText |-> "mockFunction()"],
                  [label |-> "mockVariable", kind |-> "Variable",
                   detail |-> "Mock variable completion",
                   documentation |-> "This is a mock variable", insertText |-> ""] >>]

CompletionList ==
    [type |-> "CompletionList", isIncomplete |-> FALSE,
     items |-> << [label |-> "mockFunction", kind |-> "Function",
                   detail |-> "Mock function completion",
                   documentation |-> "This is a mock function completion",
                   insertText |-> "mockFunction()"],
                  [label |-> "mockVariable", kind |-> "Variable",
                   detail |-> "Mock variable completion",
                   documentation |-> "This is a mock variable", insertText |-> ""],
                  [label |-> "mockClass", kind |-> "Class",
                   detail |-> "Mock class completion",
                   documentation |-> "", insertText |-> "MockClass"] >>]

handleCompletion_RequiresInitialize(s, req, sendOk) ==
    LET dec == Unmarshal(req.params)
    IN IF dec.panic THEN Panic(s)
       ELSE IF "initialize" \notin seen
       THEN Outcome(s.documents,
                <<ReplyWithErrorEvent(req.id,
                     [code |-> -32002, message |-> Msg("server not initialized")],
                     sendOk)>>)
       ELSE IF dec.err.kind # "nil"
       THEN RequestDecodeFailure(s, req, sendOk, "failed to parse completion params",
                                 "Failed to send completion error: %v")
       ELSE RequestReply(s, req, sendOk, CompletionList,
                         "Failed to send completion response: %v")

handleCompletion(s, req, sendOk) ==
    LET dec == Unmarshal(req.params)
    IN IF dec.panic THEN Panic(s)
       ELSE IF dec.err.kind # "nil"
       THEN RequestDecodeFailure(s, req, sendOk, "failed to parse completion params",
                                 "Failed to send completion error: %v")
       ELSE RequestReply(s, req, sendOk, CompletionList,
                         "Failed to send completion response: %v")

\* Position.Character is an unsigned 32-bit integer, held here as two 16-bit
\* halves [hi, lo] (value = hi * 2^16 + lo); adding wraps at 2^32.
HalfWord == 65536

U32(hi, lo) == [hi |-> hi, lo |-> lo]

U32Add(c, n) ==
    [hi |-> (c.hi + ((c.lo + n) \div HalfWord)) % HalfWord, lo |-> (c.lo + n) % HalfWord]

HoverResult(p) ==
    [type |-> "Hover", kind |-> "markdown",
     range |-> Range(p.line, p.character, p.line, U32Add(p.character, 10))]

handleHover(s, req, sendOk) ==
    LET dec == Unmarshal(req.params)
    IN IF dec.panic THEN Panic(s)
       ELSE IF dec.err.kind # "nil"
       THEN RequestDecodeFailure(s, req, sendOk, "failed to parse hover params",
                                 "Failed to send hover error: %v")
       ELSE RequestReply(s, req, sendOk, HoverResult(dec.value),
                         "Failed to send hover response: %v")

Location(uri, range) == [uri |-> uri, range |-> range]

DefinitionResult_FixedUri(p) ==
    [type |-> "Locations", locations |-> <<Location("file:///a.go", Range(0, 0, 0, 10))>>]

DefinitionResult(p) ==
    [type |-> "Locations", locations |-> <<Location(p.uri, Range(0, 0, 0, 10))>>]

handleDefinition(s, req, sendOk) ==
    LET dec == Unmarshal(req.params)
    IN IF dec.panic THEN Panic(s)
       ELSE IF dec.err.kind # "nil"
       THEN RequestDecodeFailure(s, req, sendOk, "failed to parse definition params",
                                 "Failed to send definition error: %v")
       ELSE RequestReply(s, req, sendOk, DefinitionResult(dec.value),
                         "Failed to send definition response: %v")

ReferencesResult_Swapped(p) ==
    [type |-> "Locations",
     locations |-> <<Location(p.uri, Range(10, 5, 10, 15)),
                     Location(p.uri, Range(5, 10, 5, 20))>>]

ReferencesResult(p) ==
    [type |-> "Locations",
     locations |-> <<Location(p.uri, Range(5, 10, 5, 20)),
                     Location(p.uri, Range(10, 5, 10, 15))>>]

handleReferences(s, req, sendOk) ==
    LET dec == Unmarshal(req.params)
    IN IF dec.panic THEN Panic(s)
       ELSE IF dec.err.kind # "nil"
       THEN RequestDecodeFailure(s, req, sendOk, "failed to parse references params",
                                 "Failed to send references error: %v")
       ELSE RequestReply(s, req, sendOk, ReferencesResult(dec.value),
                         "Failed to send references response: %v")

DocumentSymbolResult ==
    [type |-> "DocumentSymbols",
     symbols |-> << [name |-> "MockClass", kind |-> "Class",
                     range |-> Range(0, 0, 20, 0), selectionRange |-> Range(0, 6, 0, 15),
                     children |-> << [name |-> "mockMethod", kind |-> "Method",
                                      range |-> Range(5, 4, 10, 4),
                                      selectionRange |-> Range(5, 4, 5, 14)] >>] >>]

handleDocumentSymbol(s, req, sendOk) ==
    LET dec == Unmarshal(req.params)
    IN IF dec.panic THEN Panic(s)
       ELSE IF dec.err.kind # "nil"
       THEN RequestDecodeFailure(s, req, sendOk, "failed to parse document symbol params",
                                 "Failed to send document symbol error: %v")
       ELSE RequestReply(s, req, sendOk, DocumentSymbolResult,
                         "Failed to send document symbol response: %v")

NullResult == [type |-> "null"]

handleShutdown_ClosesDocuments(s, req, sendOk) ==
    Outcome([u \in {} |-> 0],
        Printf(Msg("Shutdown request received"))
        \o <<ReplyEvent(req.id, NullResult, sendOk)>>
        \o (IF sendOk THEN <<>>
            ELSE Printf(<<"Failed to send shutdown response: %v", "transport">>)))

handleShutdown(s, req, sendOk) ==
    Outcome(s.documents,
        Printf(Msg("Shutdown request received"))
        \o <<ReplyEvent(req.id, NullResult, sendOk)>>
        \o (IF sendOk THEN <<>>
            ELSE Printf(<<"Failed to send shutdown response: %v", "transport">>)))

handleExit_OnlyAfterShutdown(s, req, sendOk) ==
    [documents |-> s.documents,
     events |-> Printf(Msg("Exit notification received")),
     status |-> IF "shutdown" \in seen THEN "exited" ELSE "running"]

\* os.Exit(0)
handleExit(s, req, sendOk) ==
    [documents |-> s.documents,
     events |-> Printf(Msg("Exit notification received")),
     status |-> "exited"]

\* The default branch of the switch in Handle.
handleUnsupportedMethod(s, req, sendOk) ==
    LET lspErr == NewMethodNotFoundError(req.method)
    IN Outcome(s.documents,
           <<ReplyWithErrorEvent(req.id, ToJSONRPCError(lspErr), sendOk)>>
           \o (IF sendOk THEN <<>>
               ELSE HandleError(s,
                       WrapError(TransportError, ErrorCodeInternalError,
                                 Msg("Failed to send method not found error"),
                                 ReplyContext(req.method, req.id)),
                       "handle_unsupported_method")))

\* MockLSPServer.Handle: an exact, case-sensitive match on req.Method.
Handle(s, req, sendOk) ==
    CASE req.method = "initialize" -> handleInitialize(s, req, sendOk)
      [] req.method = "initialized" -> handleInitialized(s, req, sendOk)
      [] req.method = "textDocument/didOpen" -> handleTextDocumentDidOpen(s, req, sendOk)
      [] req.method = "textDocument/didChange" -> handleTextDocumentDidChange(s, req, sendOk)
      [] req.method = "textDocument/didSave" -> handleTextDocumentDidSave(s, req, sendOk)
      [] req.method = "textDocument/didClose" -> handleTextDocumentDidClose(s, req, sendOk)
      [] req.method = "textDocument/completion" -> handleCompletion(s, req, sendOk)
      [] req.method = "textDocument/hover" -> handleHover(s, req, sendOk)
      [] req.method = "textDocument/definition" -> handleDefinition(s, req, sendOk)
      [] req.method = "textDocument/references" -> handleReferences(s, req, sendOk)
      [] req.method = "textDocument/documentSymbol" -> handleDocumentSymbol(s, req, sendOk)
      [] req.method = "shutdown" -> handleShutdown(s, req, sendOk)
      [] req.method = "exit" -> handleExit(s, req, sendOk)
      [] OTHER -> handleUnsupportedMethod(s, req, sendOk)

\* ------------------------------------------------------------------ state
VARIABLES
    documents,   \* MockLSPServer.documents
    structured,  \* MockLSPServer.structuredLogger # nil
    status,      \* the process: "running", "exited" (os.Exit(0)), "panicked" or "fatal"
    pc,          \* the read loop: "idle", "received" (Handle is about to be
                 \* called with req) or "handled" (Handle has returned)
    req,         \* the request being handled
    before,      \* documents as the current Handle call found it
    events,      \* what the current Handle call did, in program order
    opened       \* history: the URI of the decoded didOpen that was the previous
                 \* message, the store size before it and whether the URI was
                 \* stored then; kept while the next message is a didClose of
                 \* that URI

\* State of the concurrent handler invocations (SpecConc only).
VARIABLES
    threads,     \* per invocation: its position, request and locals
    gen,         \* per stored URI: which invocation's item the map points to
                 \* (0: an item stored before the invocations started)
    sent,        \* the Notify calls made so far, in order
    initial      \* documents as it was when the invocations started

\* State of the error layer under test (SpecErrors only).
VARIABLES
    lspError,    \* the error value the operations are applied to
    annotations, \* history: the WithContext calls made on lspError, in order
    call,        \* the latest operation: its name, arguments and result
    manager      \* the logging manager (SpecLogging only)

seqVars == <<pc, req, before, events, opened, seen>>
concVars == <<threads, gen, sent, initial>>
errVars == <<lspError, annotations, call, manager>>
vars == <<documents, structured, status, pc, req, before, events, opened, seen,
          threads, gen, sent, initial, lspError, annotations, call,
          manager>>

Threads == 1..NumThreads

IdleThread == [pc |-> "idle", req |-> [method |-> "", notif |-> TRUE, id |-> NoId,
                                       params |-> NilParams],
               raced |-> FALSE, ref |-> -1, i |-> 0]

EmptyStore == [u \in {} |-> 0]

Server == [documents |-> documents, structured |-> structured]

NoRequest == [method |-> "", notif |-> TRUE, id |-> NoId, params |-> NilParams]

NotOpened == [uri |-> "", size |-> 0, present |-> FALSE]

\* A message with an id is a request; one without is a notification
\* (req.Notif, with the zero ID).
Request(method, id, params) ==
    [method |-> method, notif |-> (id = NoId), id |-> id, params |-> params]

Ids == RequestIds \cup {NoId}

HoverLines == {3}
\* A small character offset and one within 10 of the largest uint32
\* (4294967290 = 65535 * 2^16 + 65530).
HoverCharacters == {U32(0, 7), U32(65535, 65530)}

IgnoredParams == {NilParams, BadParams}
UriParamsSet == {NilParams, BadParams} \cup {UriParams(u) : u \in Uris}
PositionParamsSet ==
    {NilParams, BadParams}
    \cup {PositionParams(u, l, c) : u \in Uris, l \in HoverLines, c \in HoverCharacters}
DidOpenParamsSet ==
    {NilParams, BadParams}
    \cup {DidOpenParams(u, t, v, l) : u \in Uris, t \in Texts, v \in Versions,
                                      l \in LanguageIds}
DidChangeParamsSet ==
    {NilParams, BadParams}
    \cup {DidChangeParams(u, v, c) : u \in Uris, v \in Versions, c \in ChangeLists}

ParamsOf(method) ==
    CASE method = "textDocument/didOpen" -> DidOpenParamsSet
      [] method = "textDocument/didChange" -> DidChangeParamsSet
      [] method \in {"initialize", "textDocument/didSave", "textDocument/didClose",
                     "textDocument/documentSymbol"} -> UriParamsSet
      [] method \in {"textDocument/completion", "textDocument/hover",
                     "textDocument/definition", "textDocument/references"} ->
            PositionParamsSet
      [] OTHER -> IgnoredParams

Requests ==
    UNION {{Request(m, id, p) : id \in Ids, p \in ParamsOf(m)} :
              m \in SupportedMethods \cup UnknownMethods}

\* ------------------------------------------------------- logging manager
\* LogLevel: the iota constants, in the order of their declaration.
LogLevelDebug == 0
LogLevelInfo == 1
LogLevelWarning == 2
LogLevelError == 3

LogLevels == {LogLevelDebug, LogLevelInfo, LogLevelWarning, LogLevelError}

\* The log_level strings a configuration file may hold.
ConfigLogLevels == {"debug", "INFO", "warn", "Warning", "error", "verbose", ""}

\* ParseLogLevel(level): case-insensitive, Info for anything unknown.
ParseLogLevel(level) ==
    LET ToUpper == CASE level = "debug" -> "DEBUG"
                     [] level = "warn" -> "WARN"
                     [] level = "Warning" -> "WARNING"
                     [] level = "error" -> "ERROR"
                     [] OTHER -> level
    IN CASE ToUpper = "DEBUG" -> LogLevelDebug
         [] ToUpper = "INFO" -> LogLevelInfo
         [] ToUpper \in {"WARNING", "WARN"} -> LogLevelWarning
         [] ToUpper = "ERROR" -> LogLevelError
         [] OTHER -> LogLevelInfo

\* NewManager(appName): no logger yet, level Info.  written is the sequence
\* of entries handed to lm.logger.
NewManager ==
    [logger |-> FALSE, currentLevel |-> LogLevelInfo, written |-> <<>>]

shouldLog_StrictlyAbove(lm, level) == level > lm.currentLevel

\* lm.shouldLog(level)
shouldLog(lm, level) == level >= lm.currentLevel

\* lm.logWithLevel(level, format, args...)
logWithLevel(lm, level, message) ==
    IF ~lm.logger \/ ~shouldLog(lm, level)
    THEN lm
    ELSE [lm EXCEPT !.written = Append(@, [level |-> level, message |-> message])]

\* lm.SetLogLevel(level)
SetLogLevel(lm, level) == [lm EXCEPT !.currentLevel = level]

\* lm.GetLogLevel()
GetLogLevel(lm) == lm.currentLevel

\* NewMockLSPServer / NewMockLSPServerWithStructuredLogger
NoCall ==
    [op |-> "none", err |-> NilError, code |-> 0, message |-> <<"", "">>,
     context |-> EmptyContext, operation |-> "", result |-> NilError,
     wire |-> ToJSONRPCError(NilError), log |-> <<>>, name |-> ""]

SeqInit ==
    /\ manager = NewManager
    /\ lspError = NilError
    /\ annotations = <<>>
    /\ call = NoCall
    /\ pc = "idle"
    /\ req = NoRequest
    /\ before = EmptyStore
    /\ events = <<>>
    /\ opened = NotOpened
    /\ seen = {}

ConcIdle ==
    /\ threads = [t \in Threads |-> IdleThread]
    /\ gen = EmptyStore
    /\ sent = {}
    /\ initial = EmptyStore

Init ==
    /\ documents = EmptyStore
    /\ structured \in BOOLEAN
    /\ status = "running"
    /\ SeqInit
    /\ ConcIdle

\* Is r a decodable didClose for the URI of the didOpen handled just before?
FollowsOpen(r, o) ==
    r.method = "textDocument/didClose" /\ r.params.tag = "ok" /\ r.params.uri = o.uri

\* The transport hands the next decoded message to the handler closure of main.
Receive ==
    /\ status = "running"
    /\ pc = "idle"
    /\ req' \in Requests
    /\ before' = documents
    /\ events' = <<>>
    /\ pc' = "received"
    /\ opened' = IF FollowsOpen(req', opened) THEN opened ELSE NotOpened
    /\ UNCHANGED <<documents, structured, status, seen>>
    /\ UNCHANGED concVars
    /\ UNCHANGED errVars

\* One call of Handle, start to return.
Dispatch(out) ==
    /\ documents' = out.documents
    /\ events' = out.events
    /\ status' = out.status
    /\ pc' = "handled"
    /\ UNCHANGED <<structured, req, before, opened, seen>>
    /\ UNCHANGED concVars
    /\ UNCHANGED errVars

Handling(method) == status = "running" /\ pc = "received" /\ req.method = method

Initialize ==
    /\ Handling("initialize")
    /\ \E sendOk \in BOOLEAN : Dispatch(Handle(Server, req, sendOk))

Initialized ==
    /\ Handling("initialized")
    /\ \E sendOk \in BOOLEAN : Dispatch(Handle(Server, req, sendOk))

DidOpen ==
    /\ Handling("textDocument/didOpen")
    /\ \E sendOk \in BOOLEAN : Dispatch(Handle(Server, req, sendOk))

DidChange ==
    /\ Handling("textDocument/didChange")
    /\ \E sendOk \in BOOLEAN : Dispatch(Handle(Server, req, sendOk))

DidSave ==
    /\ Handling("textDocument/didSave")
    /\ \E sendOk \in BOOLEAN : Dispatch(Handle(Server, req, sendOk))

DidClose ==
    /\ Handling("textDocument/didClose")
    /\ \E sendOk \in BOOLEAN : Dispatch(Handle(Server, req, sendOk))

Completion ==
    /\ Handling("textDocument/completion")
    /\ \E sendOk \in BOOLEAN : Dispatch(Handle(Server, req, sendOk))

Hover ==
    /\ Handling("textDocument/hover")
    /\ \E sendOk \in BOOLEAN : Dispatch(Handle(Server, req, sendOk))

Definition ==
    /\ Handling("textDocument/definition")
    /\ \E sendOk \in BOOLEAN : Dispatch(Handle(Server, req, sendOk))

References ==
    /\ Handling("textDocument/references")
    /\ \E sendOk \in BOOLEAN : Dispatch(Handle(Server, req, sendOk))

DocumentSymbol ==
    /\ Handling("textDocument/documentSymbol")
    /\ \E sendOk \in BOOLEAN : Dispatch(Handle(Server, req, sendOk))

Shutdown ==
    /\ Handling("shutdown")
    /\ \E sendOk \in BOOLEAN : Dispatch(Handle(Server, req, sendOk))

Exit ==
    /\ Handling("exit")
    /\ \E sendOk \in BOOLEAN : Dispatch(Handle(Server, req, sendOk))

UnsupportedMethod ==
    /\ status = "running" /\ pc = "received"
    /\ req.method \notin SupportedMethods
    /\ \E sendOk \in BOOLEAN : Dispatch(Handle(Server, req, sendOk))

\* Did the latest Handle call decode a didOpen and store its document?
DidOpenDecoded == req.method = "textDocument/didOpen" /\ req.params.tag = "ok"

\* jsonrpc2.HandlerWithError(handler): the closure of main has called Handle
\* and returned (nil, nil); for a request with an id the library then sends
\* a response with that id and the result null, for a notification nothing.
HandlerWithError(r, sendOk) ==
    IF r.notif THEN <<>> ELSE <<ReplyEvent(r.id, NullResult, sendOk)>>

\* Handle has returned to the handler closure, which returns to the library
\* and so to the read loop.  events then holds what the library sent.
Return ==
    /\ status = "running"
    /\ pc = "handled"
    /\ pc' = "idle"
    /\ opened' = IF DidOpenDecoded
                 THEN [uri |-> req.params.uri, size |-> Cardinality(DOMAIN before),
                       present |-> req.params.uri \in DOMAIN before]
                 ELSE NotOpened
    /\ req' = NoRequest
    /\ before' = documents
    /\ \E sendOk \in BOOLEAN : events' = HandlerWithError(req, sendOk)
    /\ UNCHANGED <<documents, structured, status, seen>>
    /\ UNCHANGED concVars
    /\ UNCHANGED errVars

Next ==
    \/ Receive
    \/ Initialize
    \/ Initialized
    \/ DidOpen
    \/ DidChange
    \/ DidSave
    \/ DidClose
    \/ Completion
    \/ Hover
    \/ Definition
    \/ References
    \/ DocumentSymbol
    \/ Shutdown
    \/ Exit
    \/ UnsupportedMethod
    \/ Return

Spec == Init /\ [][Next]_vars

\* ---------------------------------------------------------------- session
\* The same read loop with the history of the session recorded: which
\* lifecycle requests came before the message being handled.  The messages
\* carry params (decodable or not), one text and at most one content change.
SessionRequests ==
    {r \in Requests :
        /\ r.params.tag # "nil"
        /\ r.params.text \in {"", "package a"}
        /\ r.params.languageId \in {"", "go"}
        /\ r.params.changes \in {<<>>, <<[kind |-> "whole", text |-> "package b"]>>}}

SessionReceive ==
    /\ status = "running"
    /\ pc = "idle"
    /\ req' \in SessionRequests
    /\ before' = documents
    /\ events' = <<>>
    /\ pc' = "received"
    /\ UNCHANGED <<documents, structured, status, opened, seen>>
    /\ UNCHANGED concVars
    /\ UNCHANGED errVars

\* The lifecycle request that the latest Handle call handled, if any.
LifecycleOf(r) ==
    IF r.method = "shutdown" THEN {"shutdown"}
    ELSE IF r.method = "initialize" /\ r.params.tag = "ok" THEN {"initialize"}
    ELSE {}

SessionReturn ==
    /\ status = "running"
    /\ pc = "handled"
    /\ pc' = "idle"
    /\ seen' = seen \cup LifecycleOf(req)
    /\ req' = NoRequest
    /\ before' = documents
    /\ \E sendOk \in BOOLEAN : events' = HandlerWithError(req, sendOk)
    /\ UNCHANGED <<documents, structured, status, opened>>
    /\ UNCHANGED concVars
    /\ UNCHANGED errVars

NextSession ==
    \/ SessionReceive
    \/ Initialize
    \/ Initialized
    \/ DidOpen
    \/ DidChange
    \/ DidSave
    \/ DidClose
    \/ Completion
    \/ Hover
    \/ Definition
    \/ References
    \/ DocumentSymbol
    \/ Shutdown
    \/ Exit
    \/ UnsupportedMethod
    \/ SessionReturn

SpecSession == Init /\ [][NextSession]_vars

\* ------------------------------------------------ concurrent invocations
\* Handle takes no lock (MockLSPServer has no mutex field), so invocations
\* that run at once interleave at every access to the documents map and at
\* every write through a *TextDocumentItem taken from it.  A map operation
\* is not atomic: an invocation is inside it from MapEnter to its ...Leave.
\* Each invocation handles one decodable document notification.
ConcChangeLists == {<<>>, <<[kind |-> "whole", text |-> "package b"]>>}

\* What didOpen carries: a text with the version it is opened at.
ConcOpened == {<<"package a", 0>>, <<"package b", MaxVersion>>}

\* What didChange carries: a version with a list of changes.  Two of them
\* differ in both the version and the text they set.
ConcChanged ==
    {<<MaxVersion, c>> : c \in ConcChangeLists}
    \cup {<<0, <<[kind |-> "whole", text |-> "package a"]>>>>}

ConcRequests ==
    {Request("textDocument/didOpen", NoId, DidOpenParams(u, o[1], o[2], "go")) :
        u \in Uris, o \in ConcOpened}
    \cup {Request("textDocument/didChange", NoId, DidChangeParams(u, c[1], c[2])) :
            u \in Uris, c \in ConcChanged}
    \cup {Request("textDocument/didClose", NoId, UriParams(u)) : u \in Uris}

\* Stores the server can hold when the invocations start: none opened, or
\* every URI opened by an earlier didOpen.
InitialStores ==
    {EmptyStore,
     [u \in Uris |-> [uri |-> u, text |-> "package a", version |-> 0, languageId |-> "go"]]}

InitConc ==
    /\ documents \in InitialStores
    /\ initial = documents
    /\ gen = [u \in DOMAIN documents |-> 0]
    /\ threads = [t \in Threads |-> IdleThread]
    /\ sent = {}
    /\ structured = TRUE
    /\ status = "running"
    /\ SeqInit

\* The map operation a handler starts with.
MapOpOf(method) ==
    CASE method = "textDocument/didOpen" -> "assign"
      [] method = "textDocument/didChange" -> "lookup"
      [] OTHER -> "delete"

MapOps == {"assign", "lookup", "delete"}
InsidePc(op) ==
    CASE op = "assign" -> "in_assign"
      [] op = "lookup" -> "in_lookup"
      [] OTHER -> "in_delete"

InsideMap(t) == \E op \in MapOps : threads[t].pc = InsidePc(op)
InsideWrite(t) == \E op \in {"assign", "delete"} : threads[t].pc = InsidePc(op)

\* Would a map operation op of t overlap another invocation's operation, at
\* least one of the two being a write?  (A data race on the map.)
Races(t, o, op) ==
    o # t /\ InsideMap(o) /\ (InsideWrite(o) \/ op \in {"assign", "delete"})

\* Does the pointer t took from the map still point at the stored item?
PointerIsStored(t) ==
    /\ threads[t].req.params.uri \in DOMAIN documents
    /\ gen[threads[t].req.params.uri] = threads[t].ref

\* The transport calls Handle for a message while other calls are running.
ConcStart(t) ==
    /\ status = "running"
    /\ threads[t].pc = "idle"
    /\ \E r \in ConcRequests :
          threads' = [threads EXCEPT ![t].req = r, ![t].pc = MapOpOf(r.method)]
    /\ UNCHANGED <<documents, structured, status, gen, sent, initial>>
    /\ UNCHANGED seqVars
    /\ UNCHANGED errVars

\* t enters its map operation; no lock makes it wait for the others.
MapEnter(t) ==
    /\ status = "running"
    /\ threads[t].pc \in MapOps
    /\ threads' =
          [o \in Threads |->
              IF o = t
              THEN [threads[t] EXCEPT
                       !.pc = InsidePc(threads[t].pc),
                       !.raced = \E x \in Threads : Races(t, x, threads[t].pc)]
              ELSE IF Races(t, o, threads[t].pc)
              THEN [threads[o] EXCEPT !.raced = TRUE]
              ELSE threads[o]]
    /\ UNCHANGED <<documents, structured, status, gen, sent, initial>>
    /\ UNCHANGED seqVars
    /\ UNCHANGED errVars

\* The Go runtime may detect the race on the map and end the process
\* ("fatal error: concurrent map writes").
RaceFatal(t) ==
    /\ status = "running"
    /\ threads[t].pc \in MapOps
    /\ \E o \in Threads : Races(t, o, threads[t].pc)
    /\ status' = "fatal"
    /\ UNCHANGED <<documents, structured, threads, gen, sent, initial>>
    /\ UNCHANGED seqVars
    /\ UNCHANGED errVars

\* s.documents[uri] = &params.TextDocument completes; an undetected race may
\* lose the insert.
AssignLeave(t) ==
    /\ status = "running"
    /\ threads[t].pc = InsidePc("assign")
    /\ \E applied \in (IF threads[t].raced THEN BOOLEAN ELSE {TRUE}) :
          LET p == threads[t].req.params
          IN /\ documents' = IF applied
                             THEN MapAssign(documents, p.uri, TextDocumentItem(p))
                             ELSE documents
             /\ gen' = IF applied THEN MapAssign(gen, p.uri, t) ELSE gen
    /\ threads' = [threads EXCEPT ![t].pc = "notify", ![t].raced = FALSE]
    /\ UNCHANGED <<structured, status, sent, initial>>
    /\ UNCHANGED seqVars
    /\ UNCHANGED errVars

\* doc, exists := s.documents[uri] completes.
LookupLeave(t) ==
    /\ status = "running"
    /\ threads[t].pc = InsidePc("lookup")
    /\ LET uri == threads[t].req.params.uri
       IN threads' = [threads EXCEPT
                         ![t].pc = IF uri \in DOMAIN documents THEN "version" ELSE "done",
                         ![t].ref = IF uri \in DOMAIN documents THEN gen[uri] ELSE -1,
                         ![t].raced = FALSE]
    /\ UNCHANGED <<documents, structured, status, gen, sent, initial>>
    /\ UNCHANGED seqVars
    /\ UNCHANGED errVars

\* delete(s.documents, uri) completes; an undetected race may lose it.
DeleteLeave(t) ==
    /\ status = "running"
    /\ threads[t].pc = InsidePc("delete")
    /\ \E applied \in (IF threads[t].raced THEN BOOLEAN ELSE {TRUE}) :
          LET uri == threads[t].req.params.uri
          IN /\ documents' = IF applied THEN MapDelete(documents, uri) ELSE documents
             /\ gen' = IF applied THEN MapDelete(gen, uri) ELSE gen
    /\ threads' = [threads EXCEPT ![t].pc = "done", ![t].raced = FALSE]
    /\ UNCHANGED <<structured, status, sent, initial>>
    /\ UNCHANGED seqVars
    /\ UNCHANGED errVars

\* doc.Version = params.TextDocument.Version, through the pointer.
SetVersionStep(t) ==
    /\ status = "running"
    /\ threads[t].pc = "version"
    /\ LET p == threads[t].req.params
       IN /\ documents' = IF PointerIsStored(t)
                          THEN [documents EXCEPT ![p.uri] = SetVersion(@, p.version)]
                          ELSE documents
          /\ threads' = [threads EXCEPT
                            ![t].pc = IF p.changes = <<>> THEN "notify" ELSE "change",
                            ![t].i = 1]
    /\ UNCHANGED <<structured, status, gen, sent, initial>>
    /\ UNCHANGED seqVars
    /\ UNCHANGED errVars

\* One iteration of the loop over params.ContentChanges, through the pointer.
ApplyChangeStep(t) ==
    /\ status = "running"
    /\ threads[t].pc = "change"
    /\ LET p == threads[t].req.params
           n == threads[t].i
       IN /\ documents' = IF PointerIsStored(t)
                          THEN [documents EXCEPT ![p.uri] = ApplyChange(@, p.changes[n])]
                          ELSE documents
          /\ threads' = [threads EXCEPT
                            ![t].pc = IF n = Len(p.changes) THEN "notify" ELSE "change",
                            ![t].i = n + 1]
    /\ UNCHANGED <<structured, status, gen, sent, initial>>
    /\ UNCHANGED seqVars
    /\ UNCHANGED errVars

\* sendMockDiagnostics(ctx, conn, uri): the Notify call (a failed write is
\* only logged).  stored records whether the URI is in the map at the call.
NotifyStep(t) ==
    /\ status = "running"
    /\ threads[t].pc = "notify"
    /\ LET uri == threads[t].req.params.uri
       IN sent' = sent \cup {[thread |-> t, uri |-> uri,
                                 params |-> PublishDiagnosticsParams(uri),
                                 stored |-> uri \in DOMAIN documents]}
    /\ threads' = [threads EXCEPT ![t].pc = "done"]
    /\ UNCHANGED <<documents, structured, status, gen, initial>>
    /\ UNCHANGED seqVars
    /\ UNCHANGED errVars

NextConc ==
    \E t \in Threads :
        \/ ConcStart(t)
        \/ MapEnter(t)
        \/ RaceFatal(t)
        \/ AssignLeave(t)
        \/ LookupLeave(t)
        \/ DeleteLeave(t)
        \/ SetVersionStep(t)
        \/ ApplyChangeStep(t)
        \/ NotifyStep(t)

SpecConc == InitConc /\ [][NextConc]_vars

\* ------------------------------------------------------------ error layer
\* The operations of errors.go applied to one error value, with arguments
\* from small sets.  Context keys include the two that HandleError sets
\* itself; data values have three dynamic types.

\* The integers LSPErrorCode.String is applied to: every defined code and
\* integers around them.
CodeInputs == (-32701..-32699) \cup (-32604..-32599) \cup (-32108..-32099)
              \cup (-32003..-32000) \cup {0}

\* The context maps handed to WrapError: none, one and two pairs.
GivenContexts ==
    {EmptyContext}
    \cup {[k \in {"method"} |-> m] : m \in {"initialize", "workspace/unsupported"}}
    \cup {[k \in {"method", "request_id"} |-> IF k = "method" THEN m ELSE "id1"] :
              m \in {"initialize", "workspace/unsupported"}}

\* A constructor (or errors.New, or no error at all) makes the error value.
ErrConstruct ==
    /\ \E how \in {"NewLSPError", "NewLSPErrorWithCause", "NewLSPErrorWithData",
                    "LSPErrorLiteral", "errors.New", "nil"},
          code \in {ErrorCodeInvalidParams, ErrorCodeDocumentNotFound},
          message \in {Msg("invalid parameters"), Msg("document not found")},
          data \in {[type |-> "*json.RawMessage", value |-> "{}"],
                    [type |-> "string", value |-> "details"],
                    [type |-> "map[string]interface {}", value |-> "uri"]} :
          /\ (how # "NewLSPErrorWithData") => data.type = "string"
          /\ (how = "NewLSPErrorWithData") => code = ErrorCodeInvalidParams
          /\ (how \in {"errors.New", "nil"}) => code = ErrorCodeInvalidParams
          /\ (how = "nil") => message = Msg("document not found")
          /\ lspError' =
                CASE how = "NewLSPError" -> NewLSPError(code, message)
                  [] how = "NewLSPErrorWithCause" ->
                        NewLSPErrorWithCause(code, message, "write failed")
                  [] how = "NewLSPErrorWithData" -> NewLSPErrorWithData(code, message, data)
                  [] how = "LSPErrorLiteral" -> LSPErrorLiteral(code, message)
                  [] how = "errors.New" -> GenericError(message[1])
                  [] OTHER -> NilError
          /\ call' = [NoCall EXCEPT !.op = how, !.code = code, !.message = message,
                                    !.result = lspError']
    /\ annotations' = <<>>
    /\ UNCHANGED <<documents, structured, status, manager>>
    /\ UNCHANGED seqVars
    /\ UNCHANGED concVars

\* lspError.WithContext(key, value)
ErrWithContext ==
    /\ lspError.kind = "lsp"
    /\ Len(annotations) < MaxAnnotations
    /\ \E key \in {"method", "operation", "error_code"},
          value \in {"initialize", "textDocument/didOpen"} :
          /\ lspError' = WithContext(lspError, key, value)
          /\ annotations' = Append(annotations, [key |-> key, value |-> value])
          /\ call' = [NoCall EXCEPT !.op = "WithContext", !.err = lspError,
                                    !.result = lspError']
    /\ UNCHANGED <<documents, structured, status, manager>>
    /\ UNCHANGED seqVars
    /\ UNCHANGED concVars

\* eh.WrapError(lspError, code, message, context): a new error, lspError is
\* its cause.
ErrWrapError ==
    /\ \E code \in {ErrorCodeInternalError, ErrorCodeDocumentSyncFailed},
          message \in {Msg("Failed to send initialize response")},
          context \in GivenContexts :
          call' = [NoCall EXCEPT !.op = "WrapError", !.err = lspError, !.code = code,
                                !.message = message, !.context = context,
                                !.result = WrapError(lspError, code, message, context)]
    /\ UNCHANGED <<documents, structured, status, lspError, annotations, manager>>
    /\ UNCHANGED seqVars
    /\ UNCHANGED concVars

\* lspError.ToJSONRPCError()
ErrToJSONRPCError ==
    /\ lspError.kind = "lsp"
    /\ call' = [NoCall EXCEPT !.op = "ToJSONRPCError", !.err = lspError,
                              !.wire = ToJSONRPCError(lspError)]
    /\ UNCHANGED <<documents, structured, status, lspError, annotations, manager>>
    /\ UNCHANGED seqVars
    /\ UNCHANGED concVars

\* eh.HandleError(lspError, operation): what it makes the server do.
ErrHandleError ==
    /\ \E operation \in {"initialize_parse_params", "didOpen_parse_params"} :
          call' = [NoCall EXCEPT !.op = "HandleError", !.err = lspError,
                                !.operation = operation,
                                !.log = HandleError(Server, lspError, operation)]
    /\ UNCHANGED <<documents, structured, status, lspError, annotations, manager>>
    /\ UNCHANGED seqVars
    /\ UNCHANGED concVars

\* code.String()
ErrString ==
    /\ \E code \in CodeInputs :
          call' = [NoCall EXCEPT !.op = "String", !.code = code, !.name = CodeString(code)]
    /\ UNCHANGED <<documents, structured, status, lspError, annotations, manager>>
    /\ UNCHANGED seqVars
    /\ UNCHANGED concVars

NextErrors ==
    \/ ErrConstruct
    \/ ErrWithContext
    \/ ErrWrapError
    \/ ErrToJSONRPCError
    \/ ErrHandleError
    \/ ErrString

SpecErrors == Init /\ [][NextErrors]_vars

\* ----------------------------------------------------------------- config
\* A ServerConfig as a function from field paths to values.  Durations are
\* in seconds.  Logging.MaxAge stands for the fields mergeConfigs never
\* reads.
DefaultConfig ==
    "AppName" :> "mock-lsp-server"
    @@ "Server.Name" :> "Mock LSP Server"
    @@ "Server.Version" :> "1.0.0"
    @@ "Server.Description" :> "A mock LSP server for testing and development"
    @@ "Server.Timeout" :> 30
    @@ "Server.MaxRequests" :> 1000
    @@ "Logging.Level" :> "info"
    @@ "Logging.Directory" :> ""
    @@ "Logging.FileName" :> "mock-lsp-server.log"
    @@ "Logging.MaxSize" :> 50
    @@ "Logging.MaxBackups" :> 3
    @@ "Logging.MaxAge" :> 30
    @@ "Logging.Format" :> "text"
    @@ "LSP.InitializeTimeout" :> 10
    @@ "LSP.CompletionConfig.MaxItems" :> 100
    @@ "LSP.CompletionConfig.CaseSensitive" :> FALSE

\* &ServerConfig{}: every field has the zero value of its type.
ZeroConfig ==
    [f \in DOMAIN DefaultConfig |->
        CASE f \in {"Server.Timeout", "Server.MaxRequests", "Logging.MaxSize",
                    "Logging.MaxBackups", "Logging.MaxAge", "LSP.InitializeTimeout",
                    "LSP.CompletionConfig.MaxItems"} -> 0
          [] f = "LSP.CompletionConfig.CaseSensitive" -> FALSE
          [] OTHER -> ""]

\* An override that sets every field (the values of the package's tests).
OverrideConfig ==
    "AppName" :> "override-app"
    @@ "Server.Name" :> "Override Server"
    @@ "Server.Version" :> "2.0.0"
    @@ "Server.Description" :> "Partial override"
    @@ "Server.Timeout" :> 10
    @@ "Server.MaxRequests" :> 500
    @@ "Logging.Level" :> "debug"
    @@ "Logging.Directory" :> "/tmp/logs"
    @@ "Logging.FileName" :> "override.log"
    @@ "Logging.MaxSize" :> 100
    @@ "Logging.MaxBackups" :> 5
    @@ "Logging.MaxAge" :> 7
    @@ "Logging.Format" :> "json"
    @@ "LSP.InitializeTimeout" :> 5
    @@ "LSP.CompletionConfig.MaxItems" :> 200
    @@ "LSP.CompletionConfig.CaseSensitive" :> TRUE

mergeConfigs_KeepsNonEmptyBase(base, override) ==
    [result |-> [f \in DOMAIN base |->
                    IF f = "Logging.MaxAge" THEN base[f]
                    ELSE IF base[f] = ZeroConfig[f] THEN override[f] ELSE base[f]],
     base |-> base]

\* result := *base, one if per merged field in the order of the source, and
\* return &result.  The value is the returned configuration and *base as the
\* call leaves it.
mergeConfigs(base, override) ==
    LET r0 == base
        r1 == IF override["AppName"] # ""
              THEN [r0 EXCEPT !["AppName"] = override["AppName"]] ELSE r0
        r2 == IF override["Server.Name"] # ""
              THEN [r1 EXCEPT !["Server.Name"] = override["Server.Name"]] ELSE r1
        r3 == IF override["Server.Version"] # ""
              THEN [r2 EXCEPT !["Server.Version"] = override["Server.Version"]] ELSE r2
        r4 == IF override["Server.Description"] # ""
              THEN [r3 EXCEPT !["Server.Description"] = override["Server.Description"]]
              ELSE r3
        r5 == IF override["Server.Timeout"] # 0
              THEN [r4 EXCEPT !["Server.Timeout"] = override["Server.Timeout"]] ELSE r4
        r6 == IF override["Server.MaxRequests"] # 0
              THEN [r5 EXCEPT !["Server.MaxRequests"] = override["Server.MaxRequests"]]
              ELSE r5
        r7 == IF override["Logging.Level"] # ""
              THEN [r6 EXCEPT !["Logging.Level"] = override["Logging.Level"]] ELSE r6
        r8 == IF override["Logging.Directory"] # ""
              THEN [r7 EXCEPT !["Logging.Directory"] = override["Logging.Directory"]]
              ELSE r7
        r9 == IF override["Logging.FileName"] # ""
              THEN [r8 EXCEPT !["Logging.FileName"] = override["Logging.FileName"]] ELSE r8
        r10 == IF override["Logging.MaxSize"] # 0
               THEN [r9 EXCEPT !["Logging.MaxSize"] = override["Logging.MaxSize"]] ELSE r9
        r11 == IF override["Logging.MaxBackups"] # 0
               THEN [r10 EXCEPT !["Logging.MaxBackups"] = override["Logging.MaxBackups"]]
               ELSE r10
        r12 == IF override["Logging.Format"] # ""
               THEN [r11 EXCEPT !["Logging.Format"] = override["Logging.Format"]] ELSE r11
        r13 == IF override["LSP.InitializeTimeout"] # 0
               THEN [r12 EXCEPT !["LSP.InitializeTimeout"] =
                                   override["LSP.InitializeTimeout"]]
               ELSE r12
        r14 == IF override["LSP.CompletionConfig.MaxItems"] # 0
               THEN [r13 EXCEPT !["LSP.CompletionConfig.MaxItems"] =
                                   override["LSP.CompletionConfig.MaxItems"]]
               ELSE r13
        r15 == IF override["LSP.CompletionConfig.CaseSensitive"]
               THEN [r14 EXCEPT !["LSP.CompletionConfig.CaseSensitive"] =
                                   override["LSP.CompletionConfig.CaseSensitive"]]
               ELSE r14
    IN [result |-> r15, base |-> base]

\* One call of mergeConfigs: the base is the default configuration or one
\* with other values in some fields, the override sets any subset of the
\* fields.
MergeConfigs ==
    /\ call.op = "none"
    /\ \E base \in {DefaultConfig,
                     [DefaultConfig EXCEPT !["Logging.Directory"] = "/var/log",
                                           !["Server.Description"] = "",
                                           !["LSP.CompletionConfig.CaseSensitive"] = TRUE]},
          set \in SUBSET DOMAIN DefaultConfig :
          LET override == [f \in DOMAIN DefaultConfig |->
                              IF f \in set THEN OverrideConfig[f] ELSE ZeroConfig[f]]
              merged == mergeConfigs(base, override)
          IN call' = [op |-> "mergeConfigs", base |-> base, override |-> override,
                      result |-> merged.result, baseAfter |-> merged.base]
    /\ UNCHANGED <<documents, structured, status, lspError, annotations, manager>>
    /\ UNCHANGED seqVars
    /\ UNCHANGED concVars

SpecConfig == Init /\ [][MergeConfigs]_vars

\* ----------------------------------------------- logging manager: steps
\* lm.Initialize(cliLogDir, configPath): returns early, changing nothing,
\* when the configuration, the directory or the file cannot be had; otherwise
\* takes the level from the configuration and creates the logger.
ManagerInitialize ==
    /\ call.op \in {"none", "Initialize", "SetLogLevel", "logWithLevel"}
    /\ \E ok \in BOOLEAN, level \in ConfigLogLevels :
          /\ manager' = IF ok
                        THEN [manager EXCEPT !.currentLevel = ParseLogLevel(level),
                                             !.logger = TRUE]
                        ELSE manager
          /\ call' = [NoCall EXCEPT !.op = "Initialize", !.name = level]
    /\ UNCHANGED <<documents, structured, status, lspError, annotations>>
    /\ UNCHANGED seqVars
    /\ UNCHANGED concVars

ManagerSetLogLevel ==
    /\ call.op \in {"none", "Initialize", "SetLogLevel", "logWithLevel"}
    /\ \E level \in LogLevels :
          /\ manager' = SetLogLevel(manager, level)
          /\ call' = [NoCall EXCEPT !.op = "SetLogLevel", !.code = level]
    /\ UNCHANGED <<documents, structured, status, lspError, annotations>>
    /\ UNCHANGED seqVars
    /\ UNCHANGED concVars

\* lm.Debug / lm.Info and lm.Log / lm.Warning / lm.Error
ManagerLog ==
    /\ call.op \in {"none", "Initialize", "SetLogLevel", "logWithLevel"}
    /\ Len(manager.written) < MaxLogLines
    /\ \E level \in LogLevels, message \in {"opened", "failed"} :
          /\ manager' = logWithLevel(manager, level, message)
          /\ call' = [NoCall EXCEPT !.op = "logWithLevel", !.code = level,
                                    !.name = message]
    /\ UNCHANGED <<documents, structured, status, lspError, annotations>>
    /\ UNCHANGED seqVars
    /\ UNCHANGED concVars

NextLogging ==
    \/ ManagerInitialize
    \/ ManagerSetLogLevel
    \/ ManagerLog

SpecLogging == Init /\ [][NextLogging]_vars

\* ---------------------------------------------------------------- claims
\* The claims below are about one Handle call: they read the state in which
\* Handle has just returned (or has ended the process).
Handled == pc = "handled"

IsSend(e) == e.kind \in {"reply", "error", "notify"}
IsNotify(e) == e.kind = "notify"
IsStore(e) == e.kind = "store"

Sends == SelectSeq(events, IsSend)
Notifications == SelectSeq(events, IsNotify)

Decoded(method) == Handled /\ req.method = method /\ req.params.tag = "ok"

UnknownNotification == Handled /\ req.notif /\ req.method \notin SupportedMethods
UnknownRequest == Handled /\ ~req.notif /\ req.method \notin SupportedMethods

\* C1: a notification (no id) whose method is not one of the 13 supported
\* names makes Handle send nothing to the client and leaves the store as it was.
C1_UnknownNotificationDropped ==
    UnknownNotification => (Sends = <<>> /\ documents = before)

C3_NoPanic == status # "panicked"

\* C6 as claimed: after a decoded didOpen directly followed by a decoded
\* didClose of the same URI, the store has the size it had before the didOpen.
ClosedAfterOpen == Decoded("textDocument/didClose") /\ opened.uri = req.params.uri

C6_SizeRestored == ClosedAfterOpen => Cardinality(DOMAIN documents) = opened.size

\* C6 as amended: the size is restored if the URI was not stored before the
\* didOpen, and is one less than before the didOpen if it was (a re-open).
C6_SizeRestoredUnlessReopen ==
    ClosedAfterOpen =>
        Cardinality(DOMAIN documents) = opened.size - (IF opened.present THEN 1 ELSE 0)

C6_Witness ==
    /\ ClosedAfterOpen
    /\ opened.present
    /\ opened.size = 2
    /\ Cardinality(DOMAIN documents) = 1

\* C7: a decoded didChange for a URI that is not in the store changes
\* nothing in the store, sends nothing (no error reply, no
\* publishDiagnostics) and does not end the process.
ChangeOfAbsent == Decoded("textDocument/didChange") /\ req.params.uri \notin DOMAIN before

C7_ChangeOfAbsentIsNoOp ==
    ChangeOfAbsent => (documents = before /\ Sends = <<>> /\ status = "running")

C7_Witness ==
    /\ ChangeOfAbsent
    /\ before # <<>>
    /\ req.params.changes # <<>>
    /\ documents = before

\* C8: after a decoded didOpen for URI u the store maps u to exactly the
\* text, version and languageId of that didOpen, whatever was stored for u
\* before, and every other URI is stored exactly as before.
C8_OpenOverwrites ==
    Decoded("textDocument/didOpen") =>
        /\ req.params.uri \in DOMAIN documents
        /\ documents[req.params.uri] =
              [uri |-> req.params.uri, text |-> req.params.text,
               version |-> req.params.version, languageId |-> req.params.languageId]
        /\ DOMAIN documents \ {req.params.uri} = DOMAIN before \ {req.params.uri}
        /\ \A u \in DOMAIN before \ {req.params.uri} : documents[u] = before[u]

C8_Witness ==
    /\ Decoded("textDocument/didOpen")
    /\ req.params.uri \in DOMAIN before
    /\ before[req.params.uri].text # req.params.text
    /\ before[req.params.uri].languageId # req.params.languageId
    /\ documents[req.params.uri].text = req.params.text
    /\ Cardinality(DOMAIN documents) = 2

\* C9: every decoded didOpen, and every decoded didChange of a stored URI
\* (an empty contentChanges list included), makes exactly one
\* textDocument/publishDiagnostics notification for its URI, after every
\* mutation of the store, carrying exactly two diagnostics: a Warning at
\* (1,0)-(1,10), then an Information at (5,15)-(5,25).
Publishes ==
    \/ Decoded("textDocument/didOpen")
    \/ Decoded("textDocument/didChange") /\ req.params.uri \in DOMAIN before

C9_OnePublishOfTwoDiagnostics ==
    Publishes =>
        /\ Len(Notifications) = 1
        /\ Len(Sends) = 1
        /\ Notifications[1].method = "textDocument/publishDiagnostics"
        /\ Notifications[1].uri = req.params.uri
        /\ Len(Notifications[1].payload.diagnostics) = 2
        /\ Notifications[1].payload.diagnostics[1].severity = "Warning"
        /\ Notifications[1].payload.diagnostics[1].range = Range(1, 0, 1, 10)
        /\ Notifications[1].payload.diagnostics[2].severity = "Information"
        /\ Notifications[1].payload.diagnostics[2].range = Range(5, 15, 5, 25)
        /\ \E n \in 1..Len(events) :
              /\ IsNotify(events[n])
              /\ \A i \in 1..Len(events) : IsStore(events[i]) => i < n
              /\ \E i \in 1..Len(events) : IsStore(events[i])

C9_Witness ==
    /\ Decoded("textDocument/didChange")
    /\ req.params.uri \in DOMAIN before
    /\ req.params.changes = <<>>
    /\ Len(Notifications) = 1

\* C10: after a decoded didChange of a stored URI the stored version is the
\* version of that didChange, be it greater than, equal to or lower than the
\* version stored before.
ChangeOfStored == Decoded("textDocument/didChange") /\ req.params.uri \in DOMAIN before

C10_VersionStoredAsReceived ==
    ChangeOfStored =>
        /\ req.params.uri \in DOMAIN documents
        /\ documents[req.params.uri].version = req.params.version

C10_Witness ==
    /\ ChangeOfStored
    /\ req.params.version < before[req.params.uri].version
    /\ documents[req.params.uri].version = req.params.version

\* Every invocation is a didOpen, their URIs are pairwise distinct, and the
\* store was empty when they started.
ConcurrentOpensOfDistinctUris ==
    /\ initial = EmptyStore
    /\ \A t \in Threads : threads[t].req.method = "textDocument/didOpen"
    /\ \A t, o \in Threads :
          t # o => threads[t].req.params.uri # threads[o].req.params.uri

AllDone == \A t \in Threads : threads[t].pc = "done"

OpenedBy(uri) ==
    TextDocumentItem(
        threads[CHOOSE t \in Threads : threads[t].req.params.uri = uri].req.params)

\* C4: didOpen notifications for N distinct URIs, handled by N invocations
\* running at once on an initially empty store, never end the process and,
\* once all have returned, leave the store holding exactly those N documents,
\* each with the text and version of its own didOpen.
C4_ConcurrentOpensAllStored ==
    ConcurrentOpensOfDistinctUris =>
        /\ status # "fatal"
        /\ AllDone =>
              /\ DOMAIN documents = {threads[t].req.params.uri : t \in Threads}
              /\ \A u \in DOMAIN documents : documents[u] = OpenedBy(u)

\* C5: every access of a handler to the documents map happens under one
\* server-wide mutex: at no time are two invocations inside a map access.
C5_MapAccessSerialized ==
    Cardinality({t \in Threads : InsideMap(t)}) <= 1

\* Position of the last whole-document change of a list (0: there is none).
LastWholeIndex(changes) ==
    IF \E i \in 1..Len(changes) : changes[i].kind = "whole"
    THEN CHOOSE i \in 1..Len(changes) :
            /\ changes[i].kind = "whole"
            /\ \A j \in (i + 1)..Len(changes) : changes[j].kind # "whole"
    ELSE 0

IsPartialLog(e) ==
    e.kind = "log" /\ e.message[1] = "Partial document update for %s at range %v"

NumPartial(changes) == Cardinality({i \in 1..Len(changes) : changes[i].kind = "partial"})

\* C11: after a decoded didChange of a stored URI the stored text is the text
\* of the last whole-document change of the list, or the text stored before
\* if the list has none; a range change never alters the text, wherever it
\* stands in the list, and each one is logged.
C11_LastWholeChangeWins ==
    ChangeOfStored =>
        /\ documents[req.params.uri].text =
              (IF LastWholeIndex(req.params.changes) = 0
               THEN before[req.params.uri].text
               ELSE req.params.changes[LastWholeIndex(req.params.changes)].text)
        /\ Len(SelectSeq(events, IsPartialLog)) = NumPartial(req.params.changes)

C11_Witness ==
    /\ ChangeOfStored
    /\ Len(req.params.changes) = 2
    /\ req.params.changes[1].kind = "whole"
    /\ req.params.changes[2].kind = "partial"
    /\ req.params.changes[2].text # req.params.changes[1].text
    /\ before[req.params.uri].text # req.params.changes[1].text
    /\ documents[req.params.uri].text = req.params.changes[1].text

\* The request methods whose handler decodes params.
ParsingRequestMethods ==
    {"initialize", "textDocument/completion", "textDocument/hover",
     "textDocument/definition", "textDocument/references", "textDocument/documentSymbol"}

RequestDecodeFailed ==
    Handled /\ ~req.notif /\ req.method \in ParsingRequestMethods /\ req.params.tag = "bad"

DocumentNotificationMethods ==
    {"textDocument/didOpen", "textDocument/didChange", "textDocument/didSave",
     "textDocument/didClose"}

NotificationDecodeFailed ==
    Handled /\ req.notif /\ req.method \in DocumentNotificationMethods
            /\ req.params.tag = "bad"

\* C13: a didOpen, didChange, didSave or didClose notification whose params
\* fail to decode is absorbed: nothing is sent to the client (no reply, no
\* error reply, no publishDiagnostics) and the store is exactly as before.
C13_BadNotificationAbsorbed ==
    NotificationDecodeFailed =>
        /\ Sends = <<>>
        /\ documents = before
        /\ status = "running"

C13_Witness ==
    /\ NotificationDecodeFailed
    /\ req.method = "textDocument/didSave"
    /\ Cardinality(DOMAIN before) = 2
    /\ Sends = <<>>
    /\ Len(events) = 1

ReplySendFailed ==
    /\ Handled
    /\ \E i \in 1..Len(events) : events[i].kind \in {"reply", "error"} /\ ~events[i].ok

\* The entry HandleError logs for an LSPError with code InternalError that
\* carries the method name and the request id.
IsWrappedSendFailureLog(e) ==
    /\ e.kind = "log"
    /\ e.level = "Error"
    /\ "error_code" \in DOMAIN e.fields
    /\ e.fields["error_code"] = "InternalError"
    /\ e.via = "structured" =>
          /\ {"method", "request_id"} \subseteq DOMAIN e.fields
          /\ e.fields["method"] = req.method
          /\ e.fields["request_id"] = req.id

\* C14: in every handler that replies, a failed reply send is wrapped as an
\* LSPError with code InternalError carrying the method name and the request
\* id and is passed to HandleError; the send is not retried.
C14_ReplyFailureWrappedAndHandled ==
    ReplySendFailed =>
        /\ \E i \in 1..Len(events) : IsWrappedSendFailureLog(events[i])
        /\ Len(Sends) = 1

\* Every supported method whose handler decodes params.
ParsingMethods == ParsingRequestMethods \cup DocumentNotificationMethods

DecodeFailed == Handled /\ req.method \in ParsingMethods /\ req.params.tag = "bad"

\* The entry HandleError logs for an LSPError classified InvalidParams or
\* ParseError.
IsClassifiedDecodeLog(e) ==
    /\ e.kind = "log"
    /\ e.level = "Error"
    /\ "error_code" \in DOMAIN e.fields
    /\ e.fields["error_code"] \in {"InvalidParams", "ParseError"}

\* C15: every params decode failure, in every handler, is converted to an
\* LSPError classified InvalidParams or ParseError and passed through
\* HandleError before the handler returns.
C15_DecodeFailureClassifiedAndHandled ==
    DecodeFailed => \E i \in 1..Len(events) : IsClassifiedDecodeLog(events[i])

ShutdownHandled == Handled /\ req.method = "shutdown"

\* The message being handled came after a shutdown request.
AfterShutdown == Handled /\ "shutdown" \in seen

\* What Handle does for a message when no shutdown came before it.
HandledAsUsual ==
    /\ \A i \in 1..Len(Sends) : Sends[i].code \notin {-32600, -32002}
    /\ status = (IF req.method = "exit" THEN "exited" ELSE "running")
    /\ Decoded("textDocument/didOpen") =>
          /\ req.params.uri \in DOMAIN documents
          /\ documents[req.params.uri].text = req.params.text
          /\ Len(Notifications) = 1
    /\ ChangeOfStored =>
          /\ documents[req.params.uri].version = req.params.version
          /\ Len(Notifications) = 1
    /\ Decoded("textDocument/didClose") => req.params.uri \notin DOMAIN documents
    /\ Decoded("textDocument/completion") =>
          (Len(Sends) = 1 /\ Sends[1].payload = CompletionList)
    /\ Decoded("initialize") =>
          (Len(Sends) = 1 /\ Sends[1].payload = InitializeResult)
    /\ req.method = "shutdown" => (Len(Sends) = 1 /\ Sends[1].payload = NullResult)
    /\ Decoded("textDocument/hover") =>
          (Len(Sends) = 1 /\ Sends[1].payload.type = "Hover")
    /\ (Decoded("textDocument/definition") \/ Decoded("textDocument/references")) =>
          (Len(Sends) = 1 /\ Sends[1].payload.type = "Locations")
    /\ Decoded("textDocument/documentSymbol") =>
          (Len(Sends) = 1 /\ Sends[1].payload = DocumentSymbolResult)
    /\ req.method \in {"initialized", "textDocument/didSave", "exit"} => Sends = <<>>

\* C16: shutdown replies with a null result, does not end the process and
\* changes no state; a message that comes after a shutdown is handled as it
\* is when no shutdown came before it.
C16_ShutdownChangesNothing ==
    /\ ShutdownHandled =>
          /\ status = "running"
          /\ documents = before
          /\ Len(Sends) = 1
          /\ Sends[1].kind = "reply"
          /\ Sends[1].id = req.id
          /\ Sends[1].payload = NullResult
    /\ AfterShutdown => HandledAsUsual

C16_Witness ==
    /\ AfterShutdown
    /\ Decoded("textDocument/didOpen")
    /\ before # <<>>
    /\ Cardinality(DOMAIN documents) = 2
    /\ Len(Notifications) = 1

ExitHandled == Handled /\ req.method = "exit"

\* C17: exit ends the process (os.Exit(0)) and sends nothing, in every
\* state: with or without a shutdown or an initialize before it, whatever
\* documents are open; once the process has exited no message is handled.
C17_ExitTerminates ==
    /\ ExitHandled => (status = "exited" /\ Sends = <<>> /\ documents = before)
    /\ status = "exited" => ExitHandled

C17_Witness ==
    /\ ExitHandled
    /\ seen = {}
    /\ ~req.notif
    /\ Cardinality(DOMAIN documents) = 2
    /\ status = "exited"

\* The message being handled came before any initialize request was handled.
BeforeInitialize == Handled /\ "initialize" \notin seen

\* C18: Handle enforces no initialize-first ordering: a message of any
\* supported method that comes before any initialize has the same reply,
\* notifications and store effect as after one, and nothing is ever answered
\* with ServerNotInitialized (-32002).
C18_NoInitializeOrdering ==
    /\ Handled => \A i \in 1..Len(Sends) : Sends[i].code # -32002
    /\ BeforeInitialize => HandledAsUsual
    /\ (Handled /\ "initialize" \in seen) => HandledAsUsual

C18_Witness ==
    /\ BeforeInitialize
    /\ seen = {}
    /\ ~req.notif
    /\ Decoded("textDocument/completion")
    /\ Len(Sends) = 1
    /\ Sends[1].payload = CompletionList

\* The store one of the invocations' messages leaves when Handle runs alone,
\* start to return.
HandledAlone(store, r) ==
    Handle([documents |-> store, structured |-> structured], r, TRUE).documents

\* The orders in which the invocations' messages can be handled one at a time.
TotalOrders ==
    {p \in [Threads -> Threads] : \A t, o \in Threads : t # o => p[t] # p[o]}

RECURSIVE HandledInOrder(_, _, _)
HandledInOrder(store, p, k) ==
    IF k = 0 THEN store
    ELSE HandledAlone(HandledInOrder(store, p, k - 1), threads[p[k]].req)

\* C19: when invocations run at once, the process is not ended and the final
\* store (URIs, texts, versions) is the store left by handling the same
\* didOpen/didChange/didClose messages one at a time in some total order.
C19_StoreIsSomeSequentialResult ==
    /\ status # "fatal"
    /\ AllDone =>
          \E p \in TotalOrders : documents = HandledInOrder(initial, p, NumThreads)

\* c + 10 as an integer, in base 2^16: hi is 65536 when the sum is 2^32 or more.
PlusTen(c) ==
    [hi |-> c.hi + ((c.lo + 10) \div 65536), lo |-> (c.lo + 10) % 65536]

HoverReplied ==
    Decoded("textDocument/hover") /\ Len(Sends) = 1 /\ Sends[1].kind = "reply"

\* C20: the range of a hover reply starts at the requested position, ends on
\* the same line, and its end character is the start character plus 10 as
\* integers, without wrap-around, also for characters within 10 of the
\* largest value of the unsigned type.
C20_HoverRangeTenWide ==
    HoverReplied =>
        /\ Sends[1].payload.range.start =
              [line |-> req.params.line, character |-> req.params.character]
        /\ Sends[1].payload.range.end.line = req.params.line
        /\ Sends[1].payload.range.end.character = PlusTen(req.params.character)

\* C21: textDocument/completion with decodable params is answered with
\* exactly 3 items labelled mockFunction, mockVariable, mockClass, in that
\* order, and isIncomplete = false, whatever the position, the URI and the
\* store (also when the URI was never opened).
C21_CompletionThreeItems ==
    Decoded("textDocument/completion") =>
        /\ Len(Sends) = 1
        /\ Sends[1].kind = "reply"
        /\ Sends[1].id = req.id
        /\ Sends[1].payload.isIncomplete = FALSE
        /\ Len(Sends[1].payload.items) = 3
        /\ Sends[1].payload.items[1].label = "mockFunction"
        /\ Sends[1].payload.items[2].label = "mockVariable"
        /\ Sends[1].payload.items[3].label = "mockClass"
        /\ documents = before

C21_Witness ==
    /\ Decoded("textDocument/completion")
    /\ req.params.uri \notin DOMAIN before
    /\ before # <<>>
    /\ req.params.character.hi > 0
    /\ Len(Sends[1].payload.items) = 3

\* C22: textDocument/definition with decodable params is answered with
\* exactly one location, with range (0,0)-(0,10) and the URI of the request,
\* whether or not that URI is in the store.
C22_DefinitionOneLocation ==
    Decoded("textDocument/definition") =>
        /\ Len(Sends) = 1
        /\ Sends[1].kind = "reply"
        /\ Sends[1].id = req.id
        /\ Len(Sends[1].payload.locations) = 1
        /\ Sends[1].payload.locations[1].uri = req.params.uri
        /\ Sends[1].payload.locations[1].range = Range(0, 0, 0, 10)

C22_Witness ==
    /\ Decoded("textDocument/definition")
    /\ req.params.uri = "file:///b.go"
    /\ DOMAIN before = {"file:///a.go"}
    /\ Sends[1].payload.locations[1].uri = "file:///b.go"

\* C23: textDocument/references with decodable params is answered with
\* exactly two locations, with ranges (5,10)-(5,20) and (10,5)-(10,15) in
\* that order, both at the URI of the request, whatever the store and the
\* requested position.
C23_ReferencesTwoLocations ==
    Decoded("textDocument/references") =>
        /\ Len(Sends) = 1
        /\ Sends[1].kind = "reply"
        /\ Sends[1].id = req.id
        /\ Len(Sends[1].payload.locations) = 2
        /\ Sends[1].payload.locations[1] =
              [uri |-> req.params.uri, range |-> Range(5, 10, 5, 20)]
        /\ Sends[1].payload.locations[2] =
              [uri |-> req.params.uri, range |-> Range(10, 5, 10, 15)]

C23_Witness ==
    /\ Decoded("textDocument/references")
    /\ req.params.uri = "file:///a.go"
    /\ DOMAIN before = {"file:///b.go"}
    /\ req.params.character.hi > 0
    /\ Len(Sends[1].payload.locations) = 2

\* C28: textDocument/didClose with decodable params removes the entry of
\* its URI when there is one and changes nothing when there is none (so a
\* second close of the same URI is a no-op), never touches the entry of
\* another URI and never sends anything to the client; textDocument/didSave
\* never changes the store.
C28_CloseRemovesSaveKeeps ==
    /\ Decoded("textDocument/didClose") =>
          /\ DOMAIN documents = DOMAIN before \ {req.params.uri}
          /\ \A u \in DOMAIN documents : documents[u] = before[u]
          /\ (req.params.uri \notin DOMAIN before => documents = before)
          /\ Sends = <<>>
    /\ (Handled /\ req.method = "textDocument/didSave") =>
          /\ documents = before
          /\ Notifications = <<>>

\* A close of a stored URI while another document is stored: one entry goes,
\* the other stays.
C28_Witness ==
    /\ Decoded("textDocument/didClose")
    /\ DOMAIN before = {"file:///a.go", "file:///b.go"}
    /\ req.params.uri = "file:///a.go"
    /\ DOMAIN documents = {"file:///b.go"}

\* A close of a URI that is not stored (closed before, or never opened).
CloseOfAbsent ==
    /\ Decoded("textDocument/didClose")
    /\ req.params.uri = "file:///a.go"
    /\ DOMAIN before = {"file:///b.go"}

\* The log line that opens an iteration of the loop over the content changes
\* of a didChange (one per iteration, whatever the kind of the change).
IsIterationLog(e) ==
    /\ e.kind = "log"
    /\ e.message[1] \in {"Partial document update for %s at range %v",
                         "Full document update for %s",
                         "Unknown content change type: %T"}

Iterations == Len(SelectSeq(events, IsIterationLog))

\* A step in which Handle mutates the store, sends to the client or logs
\* (what the library sends once the handler closure has returned is not
\* Handle's).
HasEffect ==
    \/ documents' # documents
    \/ events' # events /\ events' # <<>> /\ pc' # "idle"

C24_WireErrorCarriesAttachedData ==
    call.op = "ToJSONRPCError" =>
        /\ DOMAIN call.wire = {"code", "message", "data"}
        /\ call.wire.code = call.err.code
        /\ call.wire.message = call.err.message
        /\ call.wire.data = call.err.data

\* The same, for the errors that have no data or data of type *json.RawMessage.
WireErrorCarriesRawData ==
    (call.op = "ToJSONRPCError" /\ call.err.data.type \in {"nil", "*json.RawMessage"}) =>
        /\ DOMAIN call.wire = {"code", "message", "data"}
        /\ call.wire.code = call.err.code
        /\ call.wire.message = call.err.message
        /\ call.wire.data = call.err.data

\* The entry HandleError wrote carries the pair k = v, as a field of the
\* structured entry or in the rendered error of the plain one.
Carries(entry, k, v) ==
    \/ k \in DOMAIN entry.fields /\ entry.fields[k] = v
    \/ k \in DOMAIN entry.detail /\ entry.detail[k] = v

\* C25: HandleError does nothing for a nil error; for any other error it
\* writes exactly one log entry, at Error severity, with operation = the
\* operation name and, for an LSPError, error_code = the name of its code and
\* every key/value of its context; it makes no store mutation and no send.
C25_HandleErrorLogsOnce ==
    call.op = "HandleError" =>
        IF call.err.kind = "nil" THEN call.log = <<>>
        ELSE /\ Len(call.log) = 1
             /\ call.log[1].kind = "log"
             /\ call.log[1].level = "Error"
             /\ "operation" \in DOMAIN call.log[1].fields
             /\ call.log[1].fields["operation"] = call.operation
             /\ call.err.kind = "lsp" =>
                   /\ "error_code" \in DOMAIN call.log[1].fields
                   /\ call.log[1].fields["error_code"] = CodeString(call.err.code)
                   /\ \A k \in DOMAIN call.err.context :
                         Carries(call.log[1], k, call.err.context[k])

\* The same, for the errors whose context has neither of the keys
\* HandleError sets itself.
HandleErrorLogsOnceWithoutCollision ==
    (call.err.kind = "lsp" => DOMAIN call.err.context \subseteq {"method"}) =>
        C25_HandleErrorLogsOnce

\* The keys annotated so far, and the index of the last annotation of a key.
AnnotatedKeys == {annotations[i].key : i \in 1..Len(annotations)}

LastAnnotation(k) ==
    CHOOSE i \in 1..Len(annotations) :
        /\ annotations[i].key = k
        /\ \A j \in (i + 1)..Len(annotations) : annotations[j].key # k

\* C26: after any sequence of WithContext calls on one error its context has
\* exactly the annotated keys, each with the value of the last call for that
\* key (k distinct keys: k entries); the call returns the error it was called
\* on, and code, message, cause and data are as before the call, also when
\* the context map was nil.
C26_ContextAccumulates ==
    /\ lspError.kind = "lsp" =>
          /\ DOMAIN lspError.context = AnnotatedKeys
          /\ Cardinality(DOMAIN lspError.context) = Cardinality(AnnotatedKeys)
          /\ \A k \in AnnotatedKeys :
                lspError.context[k] = annotations[LastAnnotation(k)].value
    /\ call.op = "WithContext" =>
          /\ call.result = lspError
          /\ ~lspError.ctxNil
          /\ lspError.code = call.err.code
          /\ lspError.message = call.err.message
          /\ lspError.cause = call.err.cause
          /\ lspError.data = call.err.data

\* Two annotations of one key with different values.
C26_Witness ==
    /\ call.op = "WithContext"
    /\ Len(annotations) = 2
    /\ annotations[1].key = annotations[2].key
    /\ annotations[1].value # annotations[2].value
    /\ lspError.context[annotations[2].key] = annotations[2].value
    /\ Cardinality(DOMAIN lspError.context) = 1

\* An annotation of an error whose context map was nil.
AnnotatedNilContext == call.op = "WithContext" /\ call.err.ctxNil

\* Two annotations of different keys.
AnnotatedTwoKeys == call.op = "WithContext" /\ Cardinality(DOMAIN lspError.context) = 2

\* C27: WrapError returns a new LSPError whose code and message are the
\* arguments, whose cause (what Unwrap returns) is the wrapped error and
\* whose context is exactly the given map, no more and no fewer pairs.
C27_WrapErrorKeepsArguments ==
    call.op = "WrapError" =>
        /\ call.result.kind = "lsp"
        /\ call.result.code = call.code
        /\ call.result.message = call.message
        /\ Unwrap(call.result) =
              (IF call.err.kind = "nil" THEN "none" ELSE call.err.message[1])
        /\ DOMAIN call.result.context = DOMAIN call.context
        /\ \A k \in DOMAIN call.context : call.result.context[k] = call.context[k]

\* A transport error wrapped with a context of two pairs.
C27_Witness ==
    /\ call.op = "WrapError"
    /\ call.err.kind = "generic"
    /\ DOMAIN call.context = {"method", "request_id"}
    /\ DOMAIN call.result.context = {"method", "request_id"}
    /\ Unwrap(call.result) = call.err.message[1]

\* The names of the 15 defined codes.
CodeNames ==
    { <<ErrorCodeParseError, "ParseError">>,
      <<ErrorCodeInvalidRequest, "InvalidRequest">>,
      <<ErrorCodeMethodNotFound, "MethodNotFound">>,
      <<ErrorCodeInvalidParams, "InvalidParams">>,
      <<ErrorCodeInternalError, "InternalError">>,
      <<ErrorCodeServerNotInitialized, "ServerNotInitialized">>,
      <<ErrorCodeUnknownErrorCode, "UnknownErrorCode">>,
      <<ErrorCodeDocumentNotFound, "DocumentNotFound">>,
      <<ErrorCodeInvalidDocument, "InvalidDocument">>,
      <<ErrorCodeDocumentSyncFailed, "DocumentSyncFailed">>,
      <<ErrorCodeCompletionFailed, "CompletionFailed">>,
      <<ErrorCodeHoverFailed, "HoverFailed">>,
      <<ErrorCodeDefinitionFailed, "DefinitionFailed">>,
      <<ErrorCodeReferencesFailed, "ReferencesFailed">>,
      <<ErrorCodeDocumentSymbolFailed, "DocumentSymbolFailed">> }

\* C30: String maps each of the 15 defined codes to its own name, the 15
\* codes and the 15 names each being pairwise distinct, and every other
\* integer to "UnknownError".
C30_CodeNames ==
    /\ Cardinality({p[1] : p \in CodeNames}) = 15
    /\ Cardinality({p[2] : p \in CodeNames}) = 15
    /\ "UnknownError" \notin {p[2] : p \in CodeNames}
    /\ call.op = "String" =>
          IF \E p \in CodeNames : p[1] = call.code
          THEN <<call.code, call.name>> \in CodeNames
          ELSE call.name = "UnknownError"

C30_Witness ==
    /\ call.op = "String"
    /\ call.code = ErrorCodeDocumentSyncFailed
    /\ call.name = "DocumentSyncFailed"

\* String applied to an integer that is no defined code.
StringOfUndefinedCode ==
    call.op = "String" /\ call.code = -32108 /\ call.name = "UnknownError"

\* ------------------------------------------------------ claims on mergeConfigs
\* The fields mergeConfigs merges.
MergedFields == DOMAIN DefaultConfig \ {"Logging.MaxAge"}

Merged == call.op = "mergeConfigs"

MergedZeroOverride == Merged /\ call.override = ZeroConfig /\ call.result = call.base

\* The responses (result or error) in a sequence of events.
IsResponse(e) == e.kind \in {"reply", "error"}

Responses(es) == SelectSeq(es, IsResponse)

\* The step in which the handler closure returns for a request with an id.
ClosureReturnsForRequest == pc = "handled" /\ pc' = "idle" /\ ~req.notif

\* C32: for every request with an id, Handle and the handler closure of main
\* (with what jsonrpc2.HandlerWithError sends for it) together send exactly
\* one response with that id.
C32_ExactlyOneResponse ==
    [][ClosureReturnsForRequest =>
           /\ Len(Responses(events)) + Len(Responses(events')) = 1
           /\ \A i \in 1..Len(Responses(events)) : Responses(events)[i].id = req.id
           /\ \A i \in 1..Len(Responses(events')) : Responses(events')[i].id = req.id
       ]_vars

\* The same for the notification-kind methods that arrive with an id: Handle
\* sends no response and the library sends the one.
NotificationKindWithIdAnsweredOnce ==
    [][(ClosureReturnsForRequest
          /\ req.method \in {"initialized", "textDocument/didOpen",
                             "textDocument/didChange", "textDocument/didSave",
                             "textDocument/didClose"}) =>
           /\ Responses(events) = <<>>
           /\ Len(Responses(events')) = 1
       ]_vars

\* C33: in the entry HandleError writes for an LSPError the operation field
\* is the operation name and the error_code field is the name of the error's
\* code, whatever the context of the error, also one with the keys
\* "operation" or "error_code".
C33_OperationAndCodeNotOverridden ==
    (call.op = "HandleError" /\ call.err.kind = "lsp") =>
        /\ Len(call.log) = 1
        /\ {"operation", "error_code"} \subseteq DOMAIN call.log[1].fields
        /\ call.log[1].fields["operation"] = call.operation
        /\ call.log[1].fields["error_code"] = CodeString(call.err.code)

\* The same with the plain logger, where the context is rendered inside the
\* error text and not as fields of the entry.
PlainEntryNotOverridden == ~structured => C33_OperationAndCodeNotOverridden

\* The step in which invocation t writes through its document pointer
\* (version or text), and the one in which it pushes the diagnostics.
UpdatesThroughPointer(t) ==
    threads[t].pc \in {"version", "change"} /\ threads'[t] # threads[t]

PushesDiagnostics(t) == threads[t].pc = "notify" /\ threads'[t].pc = "done"

\* C34: under every interleaving of concurrently handled notifications, a
\* didChange writes only to a document that is still the stored one, and
\* diagnostics for a URI are pushed only while that URI is in the store.
C34_NoUpdateOrPushAfterClose ==
    [][\A t \in Threads :
          /\ UpdatesThroughPointer(t) => PointerIsStored(t)
          /\ PushesDiagnostics(t) => threads[t].req.params.uri \in DOMAIN documents
      ]_vars

\* The same for the push alone, read from the record of the pushes made.
PushedOnlyWhileStored == \A n \in sent : n.stored

\* A didChange has pushed diagnostics for a URI that a didClose had removed.
ChangePushedAfterClose ==
    \E n \in sent :
        /\ ~n.stored
        /\ threads[n.thread].req.method = "textDocument/didChange"
        /\ \E o \in Threads :
              /\ threads[o].req.method = "textDocument/didClose"
              /\ threads[o].req.params.uri = n.uri
              /\ threads[o].pc = "done"
        /\ \A o \in Threads : ~threads[o].raced

\* C35: in every reachable state each entry of the documents map is keyed by
\* its own URI: the uri field of the item stored under k is k.
C35_KeyedByOwnUri ==
    \A k \in DOMAIN documents :
        /\ DOMAIN documents[k] = {"uri", "text", "version", "languageId"}
        /\ documents[k].uri = k

\* Two documents are stored and one of them has just had its text replaced
\* by a didChange.
C35_Witness ==
    /\ ChangeOfStored
    /\ DOMAIN documents = {"file:///a.go", "file:///b.go"}
    /\ documents[req.params.uri].text # before[req.params.uri].text
    /\ documents[req.params.uri].uri = req.params.uri

\* The methods whose handlers write to the documents map.
StoreWritingMethods ==
    {"textDocument/didOpen", "textDocument/didChange", "textDocument/didClose"}

\* C36: only didOpen, didChange and didClose change the store: a call of
\* Handle for any other method, supported or not, with any params, leaves
\* the set of stored URIs and every stored document as they were.
C36_OnlySyncMethodsChangeStore ==
    (Handled /\ req.method \notin StoreWritingMethods) =>
        /\ DOMAIN documents = DOMAIN before
        /\ \A u \in DOMAIN before :
              /\ documents[u].text = before[u].text
              /\ documents[u].version = before[u].version
              /\ documents[u].languageId = before[u].languageId
        /\ \A i \in 1..Len(events) : ~IsStore(events[i])

\* A request that names a stored document has been handled by a handler
\* that does not write, with a second document stored.
C36_Witness ==
    /\ Handled
    /\ req.method \in {"textDocument/didSave", "textDocument/hover",
                       "textDocument/documentSymbol"}
    /\ req.params.tag = "ok"
    /\ req.params.uri \in DOMAIN before
    /\ Cardinality(DOMAIN before) = 2
    /\ documents = before

\* Some call of Handle has changed the store.
StoreChanged == Handled /\ documents # before

\* Handle has handled a didOpen, or a didChange of a stored document, and the
\* write of its publishDiagnostics notification failed.
PushFailed ==
    /\ Decoded("textDocument/didOpen") \/ ChangeOfStored
    /\ \E i \in 1..Len(Notifications) : ~Notifications[i].ok

\* C37: when the publishDiagnostics notify of a didOpen or didChange fails,
\* the send has been attempted exactly once and nothing else is sent, the
\* store is what the same message leaves when the send succeeds (the
\* mutation is kept), and the server runs on: the handler closure returns
\* and the next message is received.
C37_FailedPushNotRetriedNotRolledBack ==
    PushFailed =>
        /\ Len(Notifications) = 1
        /\ Sends = Notifications
        /\ documents = HandledAlone(before, req)
        /\ req.params.uri \in DOMAIN documents
        /\ documents[req.params.uri].version = req.params.version
        /\ Decoded("textDocument/didOpen") =>
              documents[req.params.uri] = TextDocumentItem(req.params)
        /\ status = "running"
        /\ ENABLED Return

\* The push of a didChange that replaced the text of a stored document failed.
C37_Witness ==
    /\ PushFailed
    /\ ChangeOfStored
    /\ documents[req.params.uri].text # before[req.params.uri].text
    /\ Len(Notifications) = 1

\* C38: a log call of level L hands an entry to the logger exactly when a
\* logger has been created and L >= the current level (Debug < Info <
\* Warning < Error), and otherwise changes nothing; so with a logger an Error
\* entry is written at each of the four levels, a Debug entry is suppressed
\* at level Info, and GetLogLevel after SetLogLevel(l) returns l.
LoggedEntry == [level |-> call'.code, message |-> call'.name]

C38_WritesIffLoggerAndLevel ==
    [][/\ ManagerLog =>
            /\ (manager'.written = Append(manager.written, LoggedEntry))
                  <=> (manager.logger /\ call'.code >= manager.currentLevel)
            /\ manager'.written # manager.written
                  <=> (manager.logger /\ call'.code >= manager.currentLevel)
            /\ manager'.currentLevel = manager.currentLevel
            /\ (manager.logger /\ call'.code = LogLevelError)
                  => Len(manager'.written) = Len(manager.written) + 1
            /\ (call'.code = LogLevelDebug /\ manager.currentLevel = LogLevelInfo)
                  => manager'.written = manager.written
       /\ ManagerSetLogLevel =>
            /\ GetLogLevel(manager') = call'.code
            /\ manager'.written = manager.written
            /\ manager'.logger = manager.logger]_vars

\* An Error entry has just been written while the level is Error, and a Debug
\* entry written earlier (at level Debug) is still in the log.
C38_Witness ==
    /\ call.op = "logWithLevel"
    /\ call.code = LogLevelError
    /\ manager.logger
    /\ GetLogLevel(manager) = LogLevelError
    /\ Len(manager.written) = 2
    /\ manager.written[1].level = LogLevelDebug
    /\ manager.written[2].level = LogLevelError

\* A Debug call at the default level, with a logger, left the log empty.
DebugSuppressedAtInfo ==
    /\ call.op = "logWithLevel"
    /\ call.code = LogLevelDebug
    /\ manager.logger
    /\ GetLogLevel(manager) = LogLevelInfo
    /\ manager.written = <<>>

====
